---------------------------- MODULE Spec2Model ----------------------------
(***************************************************************************)
(* A model of the limit order book matching engine: ObjectPool<Order>,     *)
(* PriceLevel, OrderBook and MatchingEngine.  Every public call            *)
(* (process_order, cancel_order) runs to completion and is one action.     *)
(* The two adapters in front of the engine, CsvParser::process_line and    *)
(* TcpServer::process_message, are one action each in a specification of   *)
(* their own, SpecAdapters.  SpecPool drives an ObjectPool directly, by    *)
(* any sequence of allocate and deallocate calls without double free.      *)
(* SpecPrograms runs the two programs from their main(): the server with   *)
(* its event loop, its clients and their sockets, and the CSV driver with  *)
(* process_stream and the exceptions that leave it.                        *)
(*                                                                         *)
(* Order* pointers are pool slot numbers; `mem` is the content of the      *)
(* slots that currently hold a live Order.  Quantity is uint32_t in the    *)
(* code; the model uses unbounded integers and the bounds keep every       *)
(* quantity far below 2^32 (NoWrap states that no subtraction goes below   *)
(* zero, so no value of the model differs from the code's modulo 2^32).    *)
(***************************************************************************)
EXTENDS Integers, Sequences, FiniteSets, TLC

\* ------------------------------------------------------------------ bounds
\* number of process_order calls explored (ids 1..MaxOrders)
MaxOrders == 3
\* LIMIT prices are 1..MaxPrice ticks
MaxPrice == 3
\* order quantities are 0..MaxQty
MaxQty == 2
\* ObjectPool<T, BlockSize>: the template parameter, instantiated small so
\* that the pool grows within MaxOrders allocations
BlockSize == 2
\* slots held at once by the caller that drives a pool directly
MaxLive == 5

Prices == 1..MaxPrice
Quantities == 0..MaxQty
Sides == {"BUY", "SELL"}
OrderTypes == {"LIMIT", "MARKET"}
\* the price an adapter passes for a MARKET order
MarketPrice == 0
\* nullptr
NULL == -1
\* enum class MsgType
NEW_ORDER == 1
CANCEL == 2
ACK == 10
FILL == 11
REJECT == 12
\* constexpr int PRICE_SCALE
PRICE_SCALE == 100

VARIABLES
    bids_,              \* OrderBook::bids_   : price -> PriceLevel (greatest first)
    asks_,              \* OrderBook::asks_   : price -> PriceLevel (least first)
    order_lookup_,      \* OrderBook::order_lookup_ : id -> Order*
    mem,                \* the live Order records, by pool slot
    free_list_,         \* ObjectPool::free_list_, head first
    allocated_,         \* ObjectPool::allocated_
    blocks_,            \* ObjectPool::blocks_.size()
    next_order_id_,     \* MatchingEngine::next_order_id_
    next_timestamp_,    \* MatchingEngine::next_timestamp_
    trade_count_,       \* MatchingEngine::trade_count_
    orders_processed_,  \* MatchingEngine::orders_processed_
    trades,             \* the vector returned by the last process_order call
    ret,                \* the last public call: its arguments and its result
    io,                 \* the last adapter call: its input and what it wrote
    clients_,           \* TcpServer::clients_ : the accepted connections
    net,                \* the kernel's side of the sockets: listen queue,
                        \* and per connection the unread bytes and the flags
    proc                \* the running program and whether it has exited

vars == <<bids_, asks_, order_lookup_, mem, free_list_, allocated_, blocks_,
          next_order_id_, next_timestamp_, trade_count_, orders_processed_,
          trades, ret, io, clients_, net, proc>>

\* ------------------------------------------------------------ helpers
\* mutant: std::min replaced by its first argument
Min_first(a, b) == a
Min(a, b) == IF a <= b THEN a ELSE b
SetMin(S) == CHOOSE x \in S : \A y \in S : x <= y
SetMax(S) == CHOOSE x \in S : \A y \in S : x >= y
\* std::map::erase(key)
erase(map, k) == [q \in DOMAIN map \ {k} |-> map[q]]
\* mutant: a drained level is left in its map
erase_if_empty_never(map, k) == map
\* if (level.is_empty()) map.erase(it): a drained level leaves its map
erase_if_empty(map, k) == IF map[k].orders_ = <<>> THEN erase(map, k) ELSE map
\* std::map::operator[](key) = value
put(map, k, v) == [q \in DOMAIN map \cup {k} |-> IF q = k THEN v ELSE map[q]]
RECURSIVE SeqSum(_)
SeqSum(s) == IF s = <<>> THEN 0 ELSE Head(s) + SeqSum(Tail(s))

\* ------------------------------------------------------------ Order
remaining(o) == o.quantity - o.filled_qty
is_filled(o) == o.filled_qty >= o.quantity

\* ------------------------------------------------------------ PriceLevel
EmptyLevel == [orders_ |-> <<>>, total_qty_ |-> 0]

\* mutant: push_front instead of push_back
add_push_front(level, ptr, m) ==
    [orders_ |-> <<ptr>> \o level.orders_,
     total_qty_ |-> level.total_qty_ + remaining(m[ptr])]

add(level, ptr, m) ==
    [orders_ |-> Append(level.orders_, ptr),
     total_qty_ |-> level.total_qty_ + remaining(m[ptr])]

front(level) == Head(level.orders_)

pop_front(level, m) ==
    IF level.orders_ # <<>>
    THEN [orders_ |-> Tail(level.orders_),
          total_qty_ |-> level.total_qty_ - remaining(m[Head(level.orders_)])]
    ELSE level

\* std::find then erase: the first position holding ptr
remove(level, ptr, m) ==
    IF \E i \in 1..Len(level.orders_) : level.orders_[i] = ptr
    THEN LET i == SetMin({j \in 1..Len(level.orders_) : level.orders_[j] = ptr})
         IN [orders_ |-> SubSeq(level.orders_, 1, i - 1)
                         \o SubSeq(level.orders_, i + 1, Len(level.orders_)),
             total_qty_ |-> level.total_qty_ - remaining(m[level.orders_[i]])]
    ELSE level

is_empty(level) == level.orders_ = <<>>
total_quantity(level) == level.total_qty_
order_count(level) == Len(level.orders_)
\* mutant: a partial fill leaves the cached total as it was
reduce_quantity_none(level, qty) == level
reduce_quantity(level, qty) == [level EXCEPT !.total_qty_ = @ - qty]

\* ------------------------------------------------------------ ObjectPool
\* The engine state as one record E, threaded through the calls of one
\* public operation.
allocate_block(E) ==
    [E EXCEPT !.blocks = @ + 1,
              !.free_list = [i \in 1..BlockSize |->
                                E.blocks * BlockSize + (BlockSize - i)] \o @]

\* mutant: every allocate call adds a block first
allocate_always_grows(E) ==
    LET E1 == allocate_block(E)
    IN [E1 EXCEPT !.free_list = Tail(@),
                  !.allocated = @ + 1,
                  !.ptr = Head(E1.free_list)]
\* mutant: the slot handed out stays at the head of the free list
allocate_no_pop(E) ==
    LET E1 == IF E.free_list = <<>> THEN allocate_block(E) ELSE E
    IN [E1 EXCEPT !.allocated = @ + 1,
                  !.ptr = Head(E1.free_list)]
\* returns the pool after the call with the slot handed out in field ptr
allocate(E) ==
    LET E1 == IF E.free_list = <<>> THEN allocate_block(E) ELSE E
    IN [E1 EXCEPT !.free_list = Tail(@),
                  !.allocated = @ + 1,
                  !.ptr = Head(E1.free_list)]

\* mutant: a slot given back goes to the far end of the free list
deallocate_at_tail(E, ptr) ==
    [E EXCEPT !.free_list = @ \o <<ptr>>,
              !.allocated = @ - 1,
              !.mem = erase(@, ptr)]
\* the slot becomes a free-list node: its Order content is dead
deallocate(E, ptr) ==
    [E EXCEPT !.free_list = <<ptr>> \o @,
              !.allocated = @ - 1,
              !.mem = erase(@, ptr)]

capacity(E) == E.blocks * BlockSize

\* ------------------------------------------------------------ OrderBook
\* mutant: the order is queued in its level but not registered in the lookup
book_add_order_no_lookup(E, ptr) ==
    LET o == E.mem[ptr]
        level == add(IF o.price \in DOMAIN (IF o.side = "BUY" THEN E.bids ELSE E.asks)
                     THEN (IF o.side = "BUY" THEN E.bids ELSE E.asks)[o.price]
                     ELSE EmptyLevel, ptr, E.mem)
    IN IF o.side = "BUY"
       THEN [E EXCEPT !.bids = put(@, o.price, level)]
       ELSE [E EXCEPT !.asks = put(@, o.price, level)]

book_add_order(E, ptr) ==
    LET o == E.mem[ptr]
        E1 == [E EXCEPT !.lookup = put(@, o.id, ptr)]
    IN IF o.side = "BUY"
       THEN [E1 EXCEPT !.bids =
                put(@, o.price,
                    add(IF o.price \in DOMAIN @ THEN @[o.price] ELSE EmptyLevel,
                        ptr, E.mem))]
       ELSE [E1 EXCEPT !.asks =
                put(@, o.price,
                    add(IF o.price \in DOMAIN @ THEN @[o.price] ELSE EmptyLevel,
                        ptr, E.mem))]

\* returns the book after the call with the removed Order* (or NULL) in ptr
book_cancel_order(E, order_id) ==
    IF order_id \notin DOMAIN E.lookup
    THEN [E EXCEPT !.ptr = NULL]
    ELSE LET ptr == E.lookup[order_id]
             o == E.mem[ptr]
             E1 == [E EXCEPT !.lookup = erase(@, order_id), !.ptr = ptr]
         IN IF o.side = "BUY"
            THEN IF o.price \in DOMAIN E1.bids
                 THEN LET level == remove(E1.bids[o.price], ptr, E1.mem)
                      IN [E1 EXCEPT !.bids =
                             erase_if_empty(put(@, o.price, level), o.price)]
                 ELSE E1
            ELSE IF o.price \in DOMAIN E1.asks
                 THEN LET level == remove(E1.asks[o.price], ptr, E1.mem)
                      IN [E1 EXCEPT !.asks =
                             erase_if_empty(put(@, o.price, level), o.price)]
                 ELSE E1

\* mutant: a filled resting order keeps its lookup entry
remove_from_lookup_none(E, id) == E
remove_from_lookup(E, id) == [E EXCEPT !.lookup = erase(@, id)]

\* ------------------------------------------------------------ MatchingEngine
\* mutant: a trade takes the current timestamp without advancing it
execute_trade_no_tick(E, buyer, seller, qty, price) ==
    [E EXCEPT !.mem[buyer].filled_qty = @ + qty,
              !.mem[seller].filled_qty = @ + qty,
              !.trade_count = @ + 1,
              !.trades = Append(@, [buyer_order_id |-> E.mem[buyer].id,
                                    seller_order_id |-> E.mem[seller].id,
                                    price |-> price,
                                    quantity |-> qty,
                                    timestamp |-> E.next_timestamp])]
\* mutant: the trade carries the buyer's own price
execute_trade_buyer_price(E, buyer, seller, qty, price) ==
    [E EXCEPT !.mem[buyer].filled_qty = @ + qty,
              !.mem[seller].filled_qty = @ + qty,
              !.trade_count = @ + 1,
              !.next_timestamp = @ + 1,
              !.trades = Append(@, [buyer_order_id |-> E.mem[buyer].id,
                                    seller_order_id |-> E.mem[seller].id,
                                    price |-> E.mem[buyer].price,
                                    quantity |-> qty,
                                    timestamp |-> E.next_timestamp])]

\* mutant: a trade is not counted in trade_count_
execute_trade_no_count(E, buyer, seller, qty, price) ==
    [E EXCEPT !.mem[buyer].filled_qty = @ + qty,
              !.mem[seller].filled_qty = @ + qty,
              !.next_timestamp = @ + 1,
              !.trades = Append(@, [buyer_order_id |-> E.mem[buyer].id,
                                    seller_order_id |-> E.mem[seller].id,
                                    price |-> price,
                                    quantity |-> qty,
                                    timestamp |-> E.next_timestamp])]
\* mutant: the trade names the seller as buyer and the buyer as seller
execute_trade_swapped_ids(E, buyer, seller, qty, price) ==
    [E EXCEPT !.mem[buyer].filled_qty = @ + qty,
              !.mem[seller].filled_qty = @ + qty,
              !.trade_count = @ + 1,
              !.next_timestamp = @ + 1,
              !.trades = Append(@, [buyer_order_id |-> E.mem[seller].id,
                                    seller_order_id |-> E.mem[buyer].id,
                                    price |-> price,
                                    quantity |-> qty,
                                    timestamp |-> E.next_timestamp])]
\* buyer and seller are slots; returns E with the Trade appended to trades
execute_trade(E, buyer, seller, qty, price) ==
    [E EXCEPT !.mem[buyer].filled_qty = @ + qty,
              !.mem[seller].filled_qty = @ + qty,
              !.trade_count = @ + 1,
              !.next_timestamp = @ + 1,
              !.trades = Append(@, [buyer_order_id |-> E.mem[buyer].id,
                                    seller_order_id |-> E.mem[seller].id,
                                    price |-> price,
                                    quantity |-> qty,
                                    timestamp |-> E.next_timestamp])]

\* mutant: the walk starts at the greatest ask price
asks_begin_greatest(asks) == SetMax(DOMAIN asks)
\* asks.begin()->first : the least ask price
asks_begin(asks) == SetMin(DOMAIN asks)
\* mutant: the walk over the bids starts at the least bid price
bids_begin_least(bids) == SetMin(DOMAIN bids)
\* bids.begin()->first : the greatest bid price (std::greater<>)
bids_begin(bids) == SetMax(DOMAIN bids)

\* mutant: the price gate is missing, a LIMIT BUY takes any ask
ask_exceeds_limit_never(o, ask_price) == FALSE
\* mutant: >= for >, an ask at the limit price is not matched
ask_exceeds_limit_ge(o, ask_price) == o.type = "LIMIT" /\ ask_price >= o.price
\* "For limit orders, stop if ask price exceeds our limit"
ask_exceeds_limit(o, ask_price) == o.type = "LIMIT" /\ ask_price > o.price
\* mutant: the price gate is missing, a LIMIT SELL takes any bid
bid_below_limit_never(o, bid_price) == FALSE
\* mutant: <= for <, a bid at the limit price is not matched
bid_below_limit_le(o, bid_price) == o.type = "LIMIT" /\ bid_price <= o.price
\* "For limit orders, stop if bid price is below our limit"
bid_below_limit(o, bid_price) == o.type = "LIMIT" /\ bid_price < o.price

\* the inner while loop of match_buy on the level at ask_price
RECURSIVE match_buy_level(_, _, _)
match_buy_level(E, incoming, ask_price) ==
    LET level == E.asks[ask_price] IN
    IF ~is_filled(E.mem[incoming]) /\ ~is_empty(level)
    THEN LET resting == front(level)
             fill_qty == Min(remaining(E.mem[incoming]), remaining(E.mem[resting]))
             E1 == execute_trade(E, incoming, resting, fill_qty, ask_price)
         IN IF is_filled(E1.mem[resting])
            THEN LET E2 == [E1 EXCEPT !.asks[ask_price] = pop_front(level, E1.mem)]
                     E3 == remove_from_lookup(E2, E2.mem[resting].id)
                 IN match_buy_level(deallocate(E3, resting), incoming, ask_price)
            ELSE match_buy_level(
                    [E1 EXCEPT !.asks[ask_price] = reduce_quantity(level, fill_qty)],
                    incoming, ask_price)
    ELSE E

RECURSIVE match_buy(_, _)
match_buy(E, incoming) ==
    IF ~is_filled(E.mem[incoming]) /\ DOMAIN E.asks # {}
    THEN LET ask_price == asks_begin(E.asks) IN
         IF ask_exceeds_limit(E.mem[incoming], ask_price)
         THEN E
         ELSE LET E1 == match_buy_level(E, incoming, ask_price)
              IN match_buy([E1 EXCEPT !.asks = erase_if_empty(@, ask_price)],
                           incoming)
    ELSE E

\* the inner while loop of match_sell on the level at bid_price
RECURSIVE match_sell_level(_, _, _)
match_sell_level(E, incoming, bid_price) ==
    LET level == E.bids[bid_price] IN
    IF ~is_filled(E.mem[incoming]) /\ ~is_empty(level)
    THEN LET resting == front(level)
             fill_qty == Min(remaining(E.mem[incoming]), remaining(E.mem[resting]))
             E1 == execute_trade(E, resting, incoming, fill_qty, bid_price)
         IN IF is_filled(E1.mem[resting])
            THEN LET E2 == [E1 EXCEPT !.bids[bid_price] = pop_front(level, E1.mem)]
                     E3 == remove_from_lookup(E2, E2.mem[resting].id)
                 IN match_sell_level(deallocate(E3, resting), incoming, bid_price)
            ELSE match_sell_level(
                    [E1 EXCEPT !.bids[bid_price] = reduce_quantity(level, fill_qty)],
                    incoming, bid_price)
    ELSE E

RECURSIVE match_sell(_, _)
match_sell(E, incoming) ==
    IF ~is_filled(E.mem[incoming]) /\ DOMAIN E.bids # {}
    THEN LET bid_price == bids_begin(E.bids) IN
         IF bid_below_limit(E.mem[incoming], bid_price)
         THEN E
         ELSE LET E1 == match_sell_level(E, incoming, bid_price)
              IN match_sell([E1 EXCEPT !.bids = erase_if_empty(@, bid_price)],
                            incoming)
    ELSE E

\* mutant: a LIMIT order is added to the book even when it is filled
rest_or_discard_keep_filled(E, order) ==
    IF E.mem[order].type = "LIMIT"
    THEN book_add_order(E, order)
    ELSE deallocate(E, order)
\* mutant: an order that does not rest is not handed back to the pool
rest_or_discard_leak(E, order) ==
    IF ~is_filled(E.mem[order]) /\ E.mem[order].type = "LIMIT"
    THEN book_add_order(E, order)
    ELSE E
\* mutant: an unfilled MARKET order is added to the book as well
rest_or_discard_rest_market(E, order) ==
    IF ~is_filled(E.mem[order])
    THEN book_add_order(E, order)
    ELSE deallocate(E, order)

\* mutant: the unfilled remainder of a LIMIT order is dropped
rest_or_discard_drop_limit(E, order) == deallocate(E, order)

\* the end of process_order: "If the order has remaining quantity, add to
\* book (limit orders only)", otherwise back to the pool
rest_or_discard(E, order) ==
    IF ~is_filled(E.mem[order])
    THEN IF E.mem[order].type = "LIMIT"
         THEN book_add_order(E, order)
         ELSE deallocate(E, order)
    ELSE deallocate(E, order)

process_order(E, side, type, price, quantity) ==
    LET E0 == allocate([E EXCEPT !.orders_processed = @ + 1, !.trades = <<>>])
        order == E0.ptr
        E1 == [E0 EXCEPT !.mem = put(@, order,
                                     [id |-> E0.next_order_id,
                                      timestamp |-> E0.next_timestamp,
                                      price |-> price,
                                      quantity |-> quantity,
                                      filled_qty |-> 0,
                                      side |-> side,
                                      type |-> type]),
                         !.next_order_id = @ + 1,
                         !.next_timestamp = @ + 1]
        E2 == IF side = "BUY" THEN match_buy(E1, order) ELSE match_sell(E1, order)
    IN rest_or_discard(E2, order)

\* mutant: the result of the book's cancel is handed to the pool unchecked
cancel_order_no_null_check(E, order_id) ==
    LET E1 == book_cancel_order(E, order_id)
    IN [deallocate(E1, E1.ptr) EXCEPT !.ok = (E1.ptr # NULL)]
\* mutant: a cancel call takes an order id as well
cancel_order_consumes_id(E, order_id) ==
    LET E1 == [book_cancel_order(E, order_id) EXCEPT !.next_order_id = @ + 1]
    IN IF E1.ptr # NULL
       THEN [deallocate(E1, E1.ptr) EXCEPT !.ok = TRUE]
       ELSE [E1 EXCEPT !.ok = FALSE]
\* returns E after the call with the bool result in field ok
cancel_order(E, order_id) ==
    LET E1 == book_cancel_order(E, order_id)
    IN IF E1.ptr # NULL
       THEN [deallocate(E1, E1.ptr) EXCEPT !.ok = TRUE]
       ELSE [E1 EXCEPT !.ok = FALSE]

\* ------------------------------------------------------------ observers
\* mutant: the best bid is read from the wrong end of the map
best_bid_least == IF DOMAIN bids_ = {} THEN NULL ELSE SetMin(DOMAIN bids_)
best_bid == IF DOMAIN bids_ = {} THEN NULL ELSE SetMax(DOMAIN bids_)
best_ask == IF DOMAIN asks_ = {} THEN NULL ELSE SetMin(DOMAIN asks_)
get_volume_at_price(side, price) ==
    IF side = "BUY"
    THEN IF price \in DOMAIN bids_ THEN total_quantity(bids_[price]) ELSE 0
    ELSE IF price \in DOMAIN asks_ THEN total_quantity(asks_[price]) ELSE 0
has_order(id) == id \in DOMAIN order_lookup_
bid_level_count == Cardinality(DOMAIN bids_)
ask_level_count == Cardinality(DOMAIN asks_)
total_order_count == Cardinality(DOMAIN order_lookup_)

\* ------------------------------------------------------------ state machine
\* the engine's fields gathered into the record the operators thread
Engine ==
    [bids |-> bids_, asks |-> asks_, lookup |-> order_lookup_, mem |-> mem,
     free_list |-> free_list_, allocated |-> allocated_, blocks |-> blocks_,
     next_order_id |-> next_order_id_, next_timestamp |-> next_timestamp_,
     trade_count |-> trade_count_, orders_processed |-> orders_processed_,
     trades |-> <<>>, ptr |-> NULL, ok |-> FALSE]

Store(E) ==
    /\ bids_' = E.bids
    /\ asks_' = E.asks
    /\ order_lookup_' = E.lookup
    /\ mem' = E.mem
    /\ free_list_' = E.free_list
    /\ allocated_' = E.allocated
    /\ blocks_' = E.blocks
    /\ next_order_id_' = E.next_order_id
    /\ next_timestamp_' = E.next_timestamp
    /\ trade_count_' = E.trade_count
    /\ orders_processed_' = E.orders_processed
    /\ trades' = E.trades

\* MatchingEngine() : empty book, a pool of one block, counters at 1 / 0
Init ==
    /\ bids_ = <<>>
    /\ asks_ = <<>>
    /\ order_lookup_ = <<>>
    /\ mem = <<>>
    /\ free_list_ = [i \in 1..BlockSize |-> BlockSize - i]
    /\ allocated_ = 0
    /\ blocks_ = 1
    /\ next_order_id_ = 1
    /\ next_timestamp_ = 1
    /\ trade_count_ = 0
    /\ orders_processed_ = 0
    /\ trades = <<>>
    /\ ret = [op |-> "init", side |-> "BUY", type |-> "LIMIT", price |-> 0,
              quantity |-> 0, id |-> 0, ok |-> FALSE]
    /\ io = [adapter |-> "none", call |-> [op |-> "none"], line |-> <<>>,
             os |-> <<>>, msg |-> <<>>, sent |-> <<>>]
    /\ clients_ = <<>>
    /\ net = [listen |-> 0, made |-> 0, conns |-> <<>>]
    /\ proc = "none"

ProcessOrder ==
    /\ next_order_id_ <= MaxOrders
    /\ \E side \in Sides, type \in OrderTypes, quantity \in Quantities :
         \E price \in (IF type = "LIMIT" THEN Prices ELSE {MarketPrice}) :
            /\ Store(process_order(Engine, side, type, price, quantity))
            /\ ret' = [op |-> "process_order", side |-> side, type |-> type,
                       price |-> price, quantity |-> quantity,
                       id |-> next_order_id_, ok |-> TRUE]
            /\ UNCHANGED <<io, clients_, net, proc>>

CancelOrder ==
    \E order_id \in 1..(MaxOrders + 1) :
       LET E == cancel_order(Engine, order_id)
       IN /\ Store(E)
          /\ ret' = [op |-> "cancel_order", side |-> "BUY", type |-> "LIMIT",
                     price |-> 0, quantity |-> 0, id |-> order_id, ok |-> E.ok]
          /\ UNCHANGED <<io, clients_, net, proc>>

Next == ProcessOrder \/ CancelOrder

Spec == Init /\ [][Next]_vars

\* ------------------------------------------------------------ adapters
\* An adapter call that makes no engine call leaves the engine alone.  The
\* adapters keep the record of their engine call in io (`ret` is the
\* record of a direct call), and `trades` is the vector their handler got
\* back, empty when it made no process_order call.
NoEngineCall ==
    /\ UNCHANGED <<bids_, asks_, order_lookup_, mem, free_list_, allocated_,
                   blocks_, next_order_id_, next_timestamp_, trade_count_,
                   orders_processed_>>
    /\ trades' = <<>>

\* C++ integer division and remainder (b > 0): the quotient is truncated
\* toward zero, as is the conversion of a double to an integer
trunc_div(a, b) == IF a >= 0 THEN a \div b ELSE -((-a) \div b)
trunc_mod(a, b) == a - b * trunc_div(a, b)

\* static_cast<Price>(p * PRICE_SCALE + 0.5), for a double p of two
\* decimals given as its number of hundredths h (p * PRICE_SCALE = h):
\* h + 0.5 = (2h + 1) / 2, truncated toward zero
price_from_double(h) == trunc_div(2 * h + 1, 2)

\* "%d.%02d" of whole and frac, as the pair <<whole, frac>>
price_to_string(p) ==
    LET whole == trunc_div(p, PRICE_SCALE)
        frac == trunc_mod(p, PRICE_SCALE)
    IN <<whole, IF frac < 0 THEN -frac ELSE frac>>

\* the elements of a set of prices, greatest first
RECURSIVE Descending(_)
Descending(S) ==
    IF S = {} THEN <<>> ELSE <<SetMax(S)>> \o Descending(S \ {SetMax(S)})

\* OrderBook::print: the lines written, each a tuple of its fields
print(E) ==
    LET level_line(map, p) ==
            <<price_to_string(p), total_quantity(map[p]), order_count(map[p])>>
        ask_levels == Descending(DOMAIN E.asks)
        bid_levels == Descending(DOMAIN E.bids)
    IN <<<<"=== ORDER BOOK ===">>, <<"--- ASKS (lowest first) ---">>>>
       \o [i \in 1..Len(ask_levels) |-> level_line(E.asks, ask_levels[i])]
       \o <<<<"--- SPREAD ---">>, <<"--- BIDS (highest first) ---">>>>
       \o [i \in 1..Len(bid_levels) |-> level_line(E.bids, bid_levels[i])]
       \o <<<<"==================">>>>

\* ------------------------------------------------------------ CsvParser
\* A command line is the vector of its comma-separated fields.  A text
\* field is a string; a numeric field is the number its text denotes, a
\* price in hundredths (the text 0.02 is 2, the text -0.01 is -1); an
\* empty price field is <<>>, a price field with a number h is <<h>>.
\* Fields that std::stod / std::stoul / std::stoull cannot convert make
\* them throw and are not among the lines drawn.
\* The lines drawn: every accepted form, and one line or a few for each
\* way of being turned away.
CsvSideFields == {"BUY", "S"}
CsvPriceFields == {<<>>} \cup {<<h>> : h \in -2..1}

\* std::transform(..., ::toupper) on the command and side fields drawn
toupper(s) ==
    CASE s = "limit" -> "LIMIT"
      [] s = "buy" -> "BUY"
      [] OTHER -> s

print_trades(ts) ==
    [k \in 1..Len(ts) |->
        <<"TRADE", ts[k].buyer_order_id, ts[k].seller_order_id,
          price_to_string(ts[k].price), ts[k].quantity>>]

\* the result of one process_line call: the engine after it, the engine
\* call it made (op "none" when it made none) and the lines it wrote
CsvResult(E, call, os) == [E |-> E, call |-> call, os |-> os]
NoCall == [op |-> "none"]
\* A numeric field whose text does not start with a number ("abc"): std::stod,
\* std::stoul and std::stoull throw std::invalid_argument on it.  The fields
\* of a line are modelled by the numbers they parse to, and this value stands
\* for every text that parses to none.
NotNumeric == -1000
\* process_line left by an exception: nothing written, no engine call made
Throw == [op |-> "throw"]

\* mutant: a line with quantity 0 is passed on to the engine
process_line_no_quantity_check(E, tokens) ==
    LET cmd == toupper(tokens[1])
    IN IF cmd = "PRINT" THEN CsvResult(E, NoCall, print(E))
       ELSE IF cmd = "CANCEL"
       THEN IF Len(tokens) < 5
            THEN CsvResult(E, NoCall,
                           <<<<"ERROR:", "CANCEL requires order_id as 5th field">>>>)
            ELSE IF tokens[5] = NotNumeric
            THEN CsvResult(E, Throw, <<>>)
            ELSE LET id == tokens[5]
                     E1 == cancel_order(E, id)
                     call == [op |-> "cancel_order", side |-> "BUY",
                              type |-> "LIMIT", price |-> 0, quantity |-> 0,
                              id |-> id, ok |-> E1.ok]
                 IN IF E1.ok
                    THEN CsvResult(E1, call, <<<<"CANCELLED", id>>>>)
                    ELSE CsvResult(E1, call, <<<<"CANCEL_REJECT", id, "(not found)">>>>)
       ELSE IF Len(tokens) < 4
       THEN CsvResult(E, NoCall, <<<<"ERROR:", "expected TYPE,SIDE,PRICE,QTY">>>>)
       ELSE IF cmd \notin {"LIMIT", "MARKET"}
       THEN CsvResult(E, NoCall, <<<<"ERROR:", "unknown command", cmd>>>>)
       ELSE LET side_str == toupper(tokens[2])
            IN IF side_str \notin {"BUY", "B", "SELL", "S"}
               THEN CsvResult(E, NoCall, <<<<"ERROR:", "unknown side", side_str>>>>)
               ELSE IF cmd = "LIMIT" /\ tokens[3] = <<>>
               THEN CsvResult(E, NoCall, <<<<"ERROR:", "LIMIT order requires a price">>>>)
               ELSE IF cmd = "LIMIT" /\ tokens[3][1] = NotNumeric
               THEN CsvResult(E, Throw, <<>>)
               ELSE IF tokens[4] = NotNumeric
               THEN CsvResult(E, Throw, <<>>)
               ELSE LET side == IF side_str \in {"BUY", "B"} THEN "BUY" ELSE "SELL"
                        price == IF cmd = "LIMIT"
                                 THEN price_from_double(tokens[3][1])
                                 ELSE MarketPrice
                        E1 == process_order(E, side, cmd, price, tokens[4])
                        call == [op |-> "process_order", side |-> side,
                                 type |-> cmd, price |-> price,
                                 quantity |-> tokens[4],
                                 id |-> E.next_order_id, ok |-> TRUE]
                    IN CsvResult(E1, call, print_trades(E1.trades))

process_line(E, tokens) ==
    LET cmd == toupper(tokens[1])
    IN IF cmd = "PRINT" THEN CsvResult(E, NoCall, print(E))
       ELSE IF cmd = "CANCEL"
       THEN IF Len(tokens) < 5
            THEN CsvResult(E, NoCall,
                           <<<<"ERROR:", "CANCEL requires order_id as 5th field">>>>)
            ELSE IF tokens[5] = NotNumeric
            THEN CsvResult(E, Throw, <<>>)
            ELSE LET id == tokens[5]
                     E1 == cancel_order(E, id)
                     call == [op |-> "cancel_order", side |-> "BUY",
                              type |-> "LIMIT", price |-> 0, quantity |-> 0,
                              id |-> id, ok |-> E1.ok]
                 IN IF E1.ok
                    THEN CsvResult(E1, call, <<<<"CANCELLED", id>>>>)
                    ELSE CsvResult(E1, call, <<<<"CANCEL_REJECT", id, "(not found)">>>>)
       ELSE IF Len(tokens) < 4
       THEN CsvResult(E, NoCall, <<<<"ERROR:", "expected TYPE,SIDE,PRICE,QTY">>>>)
       ELSE IF cmd \notin {"LIMIT", "MARKET"}
       THEN CsvResult(E, NoCall, <<<<"ERROR:", "unknown command", cmd>>>>)
       ELSE LET side_str == toupper(tokens[2])
            IN IF side_str \notin {"BUY", "B", "SELL", "S"}
               THEN CsvResult(E, NoCall, <<<<"ERROR:", "unknown side", side_str>>>>)
               ELSE IF cmd = "LIMIT" /\ tokens[3] = <<>>
               THEN CsvResult(E, NoCall, <<<<"ERROR:", "LIMIT order requires a price">>>>)
               ELSE IF cmd = "LIMIT" /\ tokens[3][1] = NotNumeric
               THEN CsvResult(E, Throw, <<>>)
               ELSE IF tokens[4] = NotNumeric
               THEN CsvResult(E, Throw, <<>>)
               ELSE IF tokens[4] = 0
               THEN CsvResult(E, NoCall, <<<<"ERROR:", "quantity must be > 0">>>>)
               ELSE LET side == IF side_str \in {"BUY", "B"} THEN "BUY" ELSE "SELL"
                        price == IF cmd = "LIMIT"
                                 THEN price_from_double(tokens[3][1])
                                 ELSE MarketPrice
                        E1 == process_order(E, side, cmd, price, tokens[4])
                        call == [op |-> "process_order", side |-> side,
                                 type |-> cmd, price |-> price,
                                 quantity |-> tokens[4],
                                 id |-> E.next_order_id, ok |-> TRUE]
                    IN CsvResult(E1, call, print_trades(E1.trades))

\* one process_line call on the line with these fields
CsvLine(tokens) ==
    LET r == process_line(Engine, tokens)
    IN /\ (r.call.op = "process_order") => next_order_id_ <= MaxOrders
       /\ r.call.op # "throw"
       /\ IF r.call.op = "none" THEN NoEngineCall ELSE Store(r.E)
       /\ io' = [adapter |-> "csv", call |-> r.call, line |-> tokens,
                 os |-> r.os, msg |-> <<>>, sent |-> <<>>]
       /\ UNCHANGED <<ret, clients_, net, proc>>

CsvProcessLine ==
    \/ CsvLine(<<"PRINT">>)
    \/ CsvLine(<<"CANCEL">>)
    \/ \E id \in 1..(MaxOrders + 1) : CsvLine(<<"CANCEL", "", "", "", id>>)
    \/ CsvLine(<<"LIMIT", "BUY", <<1>>>>)
    \/ CsvLine(<<"FOO", "BUY", <<1>>, 1>>)
    \/ CsvLine(<<"LIMIT", "X", <<1>>, 1>>)
    \/ CsvLine(<<"limit", "buy", <<1>>, 1>>)
    \/ \E side \in CsvSideFields, price \in CsvPriceFields, qty \in Quantities :
          CsvLine(<<"LIMIT", side, price, qty>>)
    \/ \E side \in CsvSideFields, qty \in Quantities :
          CsvLine(<<"MARKET", side, <<>>, qty>>)

\* ------------------------------------------------------------ TcpServer
\* An OrderMessage as the record of its fields.  side and order_type are
\* raw bytes: static_cast<Side> / static_cast<OrderType> keep the byte,
\* and the engine only ever tests for Side::BUY (0) and OrderType::LIMIT
\* (0), so every other byte acts as SELL / MARKET.
TcpPrices == -1..1
to_Side(byte) == IF byte = 0 THEN "BUY" ELSE "SELL"
to_OrderType(byte) == IF byte = 0 THEN "LIMIT" ELSE "MARKET"

\* mutant: a response does not carry the order id
ResponseMessage_no_order_id(type, id, px, qty, match) ==
    [msg_type |-> type, quantity |-> qty, order_id |-> 0,
     price |-> px, match_id |-> match]
ResponseMessage(type, id, px, qty, match) ==
    [msg_type |-> type, quantity |-> qty, order_id |-> id,
     price |-> px, match_id |-> match]

\* mutant: every FILL names the seller as the counterparty
process_message_match_seller(E, msg) ==
    IF msg.msg_type = CANCEL
    THEN LET E1 == cancel_order(E, msg.order_id)
         IN [E |-> E1,
             call |-> [op |-> "cancel_order", side |-> "BUY", type |-> "LIMIT",
                       price |-> 0, quantity |-> 0, id |-> msg.order_id,
                       ok |-> E1.ok],
             sent |-> <<ResponseMessage(IF E1.ok THEN ACK ELSE REJECT,
                                        msg.order_id, 0, 0, 0)>>]
    ELSE IF msg.msg_type = NEW_ORDER
    THEN LET side == to_Side(msg.side)
             otype == to_OrderType(msg.order_type)
             E1 == process_order(E, side, otype, msg.price, msg.quantity)
             ack == ResponseMessage(ACK, E1.next_order_id - 1, 0, 0, 0)
         IN [E |-> E1,
             call |-> [op |-> "process_order", side |-> side, type |-> otype,
                       price |-> msg.price, quantity |-> msg.quantity,
                       id |-> E.next_order_id, ok |-> TRUE],
             sent |-> <<ack>> \o
                      [k \in 1..Len(E1.trades) |->
                          ResponseMessage(FILL, ack.order_id,
                                          E1.trades[k].price,
                                          E1.trades[k].quantity,
                                          E1.trades[k].seller_order_id)]]
    ELSE [E |-> E, call |-> NoCall,
          sent |-> <<ResponseMessage(REJECT, 0, 0, 0, 0)>>]
\* the result of one process_message call: the engine after it, the engine
\* call it made and the responses handed to send_response, in order
process_message(E, msg) ==
    IF msg.msg_type = CANCEL
    THEN LET E1 == cancel_order(E, msg.order_id)
         IN [E |-> E1,
             call |-> [op |-> "cancel_order", side |-> "BUY", type |-> "LIMIT",
                      price |-> 0, quantity |-> 0, id |-> msg.order_id,
                      ok |-> E1.ok],
             sent |-> <<ResponseMessage(IF E1.ok THEN ACK ELSE REJECT,
                                        msg.order_id, 0, 0, 0)>>]
    ELSE IF msg.msg_type = NEW_ORDER
    THEN LET side == to_Side(msg.side)
             otype == to_OrderType(msg.order_type)
             E1 == process_order(E, side, otype, msg.price, msg.quantity)
             ack == ResponseMessage(ACK, E1.next_order_id - 1, 0, 0, 0)
         IN [E |-> E1,
             call |-> [op |-> "process_order", side |-> side, type |-> otype,
                      price |-> msg.price, quantity |-> msg.quantity,
                      id |-> E.next_order_id, ok |-> TRUE],
             sent |-> <<ack>> \o
                      [k \in 1..Len(E1.trades) |->
                          ResponseMessage(FILL, ack.order_id,
                                          E1.trades[k].price,
                                          E1.trades[k].quantity,
                                          IF side = "BUY"
                                          THEN E1.trades[k].seller_order_id
                                          ELSE E1.trades[k].buyer_order_id)]]
    ELSE [E |-> E, call |-> NoCall,
          sent |-> <<ResponseMessage(REJECT, 0, 0, 0, 0)>>]

OrderMessage(type, s, otype, id, px, qty) ==
    [msg_type |-> type, side |-> s, order_type |-> otype,
     order_id |-> id, price |-> px, quantity |-> qty]

\* one process_message call on the message with these fields
TcpMessage(type, s, otype, id, px, qty) ==
    LET msg == OrderMessage(type, s, otype, id, px, qty)
        r == process_message(Engine, msg)
    IN /\ (r.call.op = "process_order") => next_order_id_ <= MaxOrders
       /\ IF r.call.op = "none" THEN NoEngineCall ELSE Store(r.E)
       /\ io' = [adapter |-> "tcp", call |-> r.call, line |-> <<>>,
                 os |-> <<>>, msg |-> msg, sent |-> r.sent]
       /\ UNCHANGED <<ret, clients_, net, proc>>

TcpProcessMessage ==
    \/ \E order_id \in 1..(MaxOrders + 1) :
          TcpMessage(CANCEL, 0, 0, order_id, 0, 0)
    \/ \E side \in 0..1, price \in TcpPrices, quantity \in Quantities :
          TcpMessage(NEW_ORDER, side, 0, 0, price, quantity)
    \/ \E side \in 0..1, quantity \in Quantities :
          TcpMessage(NEW_ORDER, side, 1, 0, MarketPrice, quantity)
    \/ TcpMessage(0, 0, 0, 0, 0, 0)

NextAdapters == CsvProcessLine \/ TcpProcessMessage

SpecAdapters == Init /\ [][NextAdapters]_vars
\* ------------------------------------------------------------ pool driver
\* A caller that holds the pool alone, as the pool tests do: it allocates,
\* keeps the pointers it got (the keys of mem; what it writes into a slot
\* plays no part and is left as <<>>) and gives back any one of them.  It
\* notes each call in ret: the slot, and the slots it has given back and
\* not got again since, most recent first.
remove_slot(seq, ptr) == SelectSeq(seq, LAMBDA x : x # ptr)

PoolAllocate ==
    /\ allocated_ < MaxLive
    /\ LET E == allocate(Engine)
           given_back == IF ret.op = "init" THEN <<>> ELSE ret.freed
       IN /\ Store([E EXCEPT !.mem = put(@, E.ptr, <<>>)])
          /\ ret' = [op |-> "allocate", ptr |-> E.ptr,
                     freed |-> remove_slot(given_back, E.ptr)]
    /\ UNCHANGED <<io, clients_, net, proc>>

PoolDeallocate ==
    /\ \E ptr \in DOMAIN mem :
          /\ Store(deallocate(Engine, ptr))
          /\ ret' = [op |-> "deallocate", ptr |-> ptr,
                     freed |-> <<ptr>> \o ret.freed]
    /\ UNCHANGED <<io, clients_, net, proc>>

NextPool == PoolAllocate \/ PoolDeallocate

SpecPool == Init /\ [][NextPool]_vars
\* ------------------------------------------------------------ programs
\* The two programs built from the engine, each from its main() on: the
\* server (tcp_server.cpp) with its event loop and the sockets it reads, and
\* the CSV driver (main.cpp) with process_stream.  A run is one program.
\*
\* connections made to the server over a run
MaxClients == 2
\* messages one client writes on its connection
MaxClientMsgs == 2
\* sizeof(OrderMessage) in units of 16 bytes: bytes 0..15 hold msg_type, side,
\* order_type, padding and order_id, bytes 16..31 price, quantity, reserved.
\* A read returns whole units.
MSG_SIZE == 2
\* serialize: the message as its MSG_SIZE units
serialize(type, s, otype, id, px, qty) == <<<<type, s, otype, id>>, <<px, qty>>>>
\* deserialize: memcpy of MSG_SIZE units into an OrderMessage
deserialize(buf) ==
    OrderMessage(buf[1][1], buf[1][2], buf[1][3], buf[1][4], buf[2][1], buf[2][2])
\* what the clients write: the fields of a buy, a sell, a cancel, and a
\* message of unknown type
TcpClientMessages ==
    {<<NEW_ORDER, 0, 0, 0, 1, 1>>, <<NEW_ORDER, 1, 0, 0, 1, 1>>,
     <<CANCEL, 0, 0, 1, 0, 0>>, <<0, 0, 0, 0, 0, 0>>}

\* the fd accept() returns: the lowest descriptor not in use
lowest_fd == SetMin((1..MaxClients) \ DOMAIN net.conns)
\* clients_.erase(remove_if(... c.fd == client_fd))
remove_client(clients, client_fd) == SelectSeq(clients, LAMBDA c : c.fd # client_fd)
\* mutant: every client's data goes through the buffer of the first client
find_client_first(clients, client_fd) == 1
\* find_if(... c.fd == client_fd)
find_client(clients, client_fd) ==
    CHOOSE i \in 1..Len(clients) : clients[i].fd = client_fd

\* The while (true) loop of handle_client_data up to the read that returns
\* n <= 0: each read takes min(unread, MSG_SIZE - bytes_read) units from the
\* socket into read_buf; a full read_buf is deserialized, passed to
\* process_message and bytes_read is set to 0.  read_buf is the filled part
\* of the buffer (bytes_read units).  msgs and sent collect the messages
\* passed to process_message and the responses written.
RECURSIVE read_loop(_, _, _, _, _)
\* the loop goes on after process_message has returned r: bytes_read = 0
after_message(r, rcvbuf, msgs, sent) ==
    read_loop(r.E, <<>>, rcvbuf, msgs, sent \o r.sent)
read_loop(E, read_buf, rcvbuf, msgs, sent) ==
    IF rcvbuf = <<>>
    THEN [E |-> E, read_buf |-> read_buf, msgs |-> msgs, sent |-> sent]
    ELSE LET n == Min(Len(rcvbuf), MSG_SIZE - Len(read_buf))
             buf == read_buf \o SubSeq(rcvbuf, 1, n)
             rest == SubSeq(rcvbuf, n + 1, Len(rcvbuf))
         IN IF Len(buf) = MSG_SIZE
            THEN after_message(process_message(E, deserialize(buf)), rest,
                               Append(msgs, buf), sent)
            ELSE read_loop(E, buf, rest, msgs, sent)

\* main() of the server: engine and server constructed, run() has set up the
\* listener and the kqueue and waits for events
ServerMain ==
    /\ proc = "none"
    /\ proc' = "server"
    /\ NoEngineCall
    /\ UNCHANGED <<ret, io, clients_, net>>

\* a client connects: the connection waits in the listen queue
ClientConnect ==
    /\ proc = "server"
    /\ net.made < MaxClients
    /\ net' = [net EXCEPT !.listen = @ + 1, !.made = @ + 1]
    /\ NoEngineCall
    /\ UNCHANGED <<ret, io, clients_, proc>>

\* accept_client, run on the listener's event
AcceptClient ==
    /\ proc = "server"
    /\ net.listen > 0
    /\ LET client_fd == lowest_fd
           cs == [fd |-> client_fd, read_buf |-> <<>>, bytes_read |-> 0]
           conn == [rcvbuf |-> <<>>, wire |-> <<>>, eof |-> FALSE, written |-> 0]
       IN /\ clients_' = Append(clients_, cs)
          /\ net' = [net EXCEPT !.listen = @ - 1, !.conns = put(@, client_fd, conn)]
    /\ NoEngineCall
    /\ UNCHANGED <<ret, io, proc>>

\* a client writes one message; the network delivers it at once or holds its
\* second unit back (wire)
ClientSend ==
    /\ proc = "server"
    /\ \E fd \in DOMAIN net.conns, m \in TcpClientMessages, k \in 1..MSG_SIZE :
          LET conn == net.conns[fd]
              units == serialize(m[1], m[2], m[3], m[4], m[5], m[6])
          IN /\ ~conn.eof /\ conn.wire = <<>> /\ conn.written < MaxClientMsgs
             /\ net' = [net EXCEPT !.conns[fd].rcvbuf = @ \o SubSeq(units, 1, k),
                                   !.conns[fd].wire = SubSeq(units, k + 1, MSG_SIZE),
                                   !.conns[fd].written = @ + 1]
    /\ NoEngineCall
    /\ UNCHANGED <<ret, io, clients_, proc>>

\* the held-back units arrive
Deliver ==
    /\ proc = "server"
    /\ \E fd \in DOMAIN net.conns :
          /\ net.conns[fd].wire # <<>>
          /\ net' = [net EXCEPT !.conns[fd].rcvbuf = @ \o net.conns[fd].wire,
                                !.conns[fd].wire = <<>>]
    /\ NoEngineCall
    /\ UNCHANGED <<ret, io, clients_, proc>>

\* a client closes its connection, after all it wrote has arrived
ClientClose ==
    /\ proc = "server"
    /\ \E fd \in DOMAIN net.conns :
          /\ ~net.conns[fd].eof /\ net.conns[fd].wire = <<>>
          /\ net' = [net EXCEPT !.conns[fd].eof = TRUE]
    /\ NoEngineCall
    /\ UNCHANGED <<ret, io, clients_, proc>>

\* handle_client_data, run on a read event of a client without EV_EOF.  The
\* loop ends at the first read that returns n <= 0, once the socket has no
\* unread data: EAGAIN, or 0 when the peer has closed in the meantime, or
\* another error; the last two remove the client.
HandleClient(client_fd, last, it, r) ==
    /\ r.E.next_order_id <= MaxOrders + 1
    /\ IF r.msgs = <<>> THEN NoEngineCall ELSE Store(r.E)
    /\ clients_' = IF last = "EAGAIN"
                   THEN [clients_ EXCEPT ![it].read_buf = r.read_buf,
                                         ![it].bytes_read = Len(r.read_buf)]
                   ELSE remove_client(clients_, client_fd)
    /\ net' = IF last = "EAGAIN"
              THEN [net EXCEPT !.conns[client_fd].rcvbuf = <<>>]
              ELSE [net EXCEPT !.conns = erase(@, client_fd)]
    /\ io' = [adapter |-> "server",
              call |-> [op |-> "handle_client_data", fd |-> client_fd],
              line |-> <<>>, os |-> <<>>, msg |-> r.msgs, sent |-> r.sent]
    /\ UNCHANGED <<ret, proc>>

HandleClientData ==
    /\ proc = "server"
    /\ \E client_fd \in DOMAIN net.conns, last \in {"EAGAIN", "EOF", "ERROR"} :
          /\ net.conns[client_fd].rcvbuf # <<>> /\ ~net.conns[client_fd].eof
          /\ (last = "EOF") => net.conns[client_fd].wire = <<>>
          /\ HandleClient(client_fd, last, find_client(clients_, client_fd),
                          read_loop(Engine,
                                    clients_[find_client(clients_, client_fd)].read_buf,
                                    net.conns[client_fd].rcvbuf, <<>>, <<>>))

\* run(): an event with EV_EOF removes the client; what it sent and the
\* server has not read is not read
RunEvEof ==
    /\ proc = "server"
    /\ \E fd \in DOMAIN net.conns :
          /\ net.conns[fd].eof
          /\ clients_' = remove_client(clients_, fd)
          /\ net' = [net EXCEPT !.conns = erase(@, fd)]
    /\ NoEngineCall
    /\ UNCHANGED <<ret, io, proc>>

\* SIGINT: g_shutdown ends the loop of run(), main returns 0 and ~TcpServer
\* closes the listener and every client
Sigint ==
    /\ proc = "server"
    /\ proc' = "server exit 0"
    /\ clients_' = <<>>
    /\ net' = [net EXCEPT !.listen = 0, !.conns = <<>>]
    /\ NoEngineCall
    /\ UNCHANGED <<ret, io>>

\* main() of the CSV driver: engine and parser constructed, process_stream
\* entered
CsvMain ==
    /\ proc = "none"
    /\ proc' = "csv"
    /\ NoEngineCall
    /\ UNCHANGED <<ret, io, clients_, net>>

\* One turn of the loop of process_stream: getline and process_line.  An
\* exception out of process_line leaves process_stream and is caught in
\* main, which prints UNHANDLED EXCEPTION to cerr and returns 1.
StreamLine(tokens) ==
    LET r == process_line(Engine, tokens)
    IN /\ proc = "csv"
       /\ (r.call.op = "process_order") => next_order_id_ <= MaxOrders
       /\ IF r.call.op \in {"none", "throw"} THEN NoEngineCall ELSE Store(r.E)
       /\ io' = [adapter |-> "csv", call |-> r.call, line |-> tokens,
                 os |-> r.os, msg |-> <<>>, sent |-> <<>>]
       /\ proc' = IF r.call.op = "throw" THEN "csv exit 1" ELSE proc
       /\ UNCHANGED <<ret, clients_, net>>

ProcessStream ==
    \/ StreamLine(<<"PRINT">>)
    \/ \E id \in 1..MaxOrders : StreamLine(<<"CANCEL", "", "", "", id>>)
    \/ StreamLine(<<"CANCEL", "", "", "", NotNumeric>>)
    \/ \E side \in CsvSideFields, p \in 1..2, qty \in Quantities :
          StreamLine(<<"LIMIT", side, <<p>>, qty>>)
    \/ \E side \in CsvSideFields : StreamLine(<<"LIMIT", side, <<NotNumeric>>, 1>>)
    \/ \E side \in CsvSideFields : StreamLine(<<"LIMIT", side, <<1>>, NotNumeric>>)
    \/ \E side \in CsvSideFields, qty \in Quantities :
          StreamLine(<<"MARKET", side, <<>>, qty>>)
    \/ StreamLine(<<"MARKET", "BUY", <<>>, NotNumeric>>)

\* getline finds the end of the stream: process_stream returns, main
\* returns 0
StreamEnd ==
    /\ proc = "csv"
    /\ proc' = "csv exit 0"
    /\ NoEngineCall
    /\ UNCHANGED <<ret, io, clients_, net>>

NextPrograms ==
    \/ ServerMain \/ ClientConnect \/ AcceptClient \/ ClientSend \/ Deliver
    \/ ClientClose \/ HandleClientData \/ RunEvEof \/ Sigint
    \/ CsvMain \/ ProcessStream \/ StreamEnd

SpecPrograms == Init /\ [][NextPrograms]_vars
\* ------------------------------------------------------------ properties
\* every queue position of the book: <<side, price, index>>
Positions ==
    UNION {{<<"BUY", p, i>> : i \in 1..Len(bids_[p].orders_)} : p \in DOMAIN bids_}
    \cup
    UNION {{<<"SELL", p, i>> : i \in 1..Len(asks_[p].orders_)} : p \in DOMAIN asks_}

SlotAt(pos) ==
    IF pos[1] = "BUY" THEN bids_[pos[2]].orders_[pos[3]]
                      ELSE asks_[pos[2]].orders_[pos[3]]

\* the sum of remaining over the orders queued in a level
RECURSIVE SumRemaining(_, _)
SumRemaining(orders, m) ==
    IF orders = <<>> THEN 0
    ELSE remaining(m[Head(orders)]) + SumRemaining(Tail(orders), m)

\* the quantities of a trade list
TradeQtys(ts) == [i \in 1..Len(ts) |-> ts[i].quantity]
\* the total quantity of the trades returned by the last call
Traded == SeqSum(TradeQtys(trades))
\* the id of the resting counterparty of a trade of the last call
RestingId(t) == IF ret.side = "BUY" THEN t.seller_order_id ELSE t.buyer_order_id

\* No cached total ever goes below the sum it caches, and no quantity below
\* zero: the code's arithmetic modulo 2^32 never wraps within the bounds.
NoWrap ==
    /\ \A p \in DOMAIN bids_ :
          bids_[p].total_qty_ >= SumRemaining(bids_[p].orders_, mem)
    /\ \A p \in DOMAIN asks_ :
          asks_[p].total_qty_ >= SumRemaining(asks_[p].orders_, mem)
    /\ \A s \in DOMAIN mem : mem[s].filled_qty <= mem[s].quantity

\* C1: after every call, each level's cached total_quantity equals the sum
\* of remaining over the orders queued in it.  The code breaks this when the
\* head order of a level is completely filled: execute_trade has already
\* raised filled_qty, so pop_front subtracts a remaining() of 0.
C1_TotalQuantityIsSum ==
    /\ \A p \in DOMAIN bids_ :
          get_volume_at_price("BUY", p) = SumRemaining(bids_[p].orders_, mem)
    /\ \A p \in DOMAIN asks_ :
          get_volume_at_price("SELL", p) = SumRemaining(asks_[p].orders_, mem)

\* C2: the book is never crossed: best_bid < best_ask whenever both exist.
C2_BookNeverCrossed ==
    (best_bid # NULL /\ best_ask # NULL) => best_bid < best_ask

\* a LIMIT order traded, rested with its remainder, and both sides are held
C2_Witness ==
    /\ ret.op = "process_order" /\ ret.type = "LIMIT"
    /\ trades # <<>>
    /\ has_order(ret.id)
    /\ best_bid # NULL /\ best_ask # NULL

\* C3: the lookup and the levels agree: an id is in the lookup iff its order
\* is queued in exactly one level, on its own side at its own price; so
\* total_order_count() is the sum of order_count over all levels.
C3_LookupAgreesWithLevels ==
    /\ \A id \in DOMAIN order_lookup_ :
          LET ptr == order_lookup_[id] IN
          /\ ptr \in DOMAIN mem
          /\ mem[ptr].id = id
          /\ Cardinality({pos \in Positions : SlotAt(pos) = ptr}) = 1
          /\ \A pos \in Positions :
                SlotAt(pos) = ptr =>
                    pos[1] = mem[ptr].side /\ pos[2] = mem[ptr].price
    /\ \A pos \in Positions :
          LET ptr == SlotAt(pos) IN
          /\ ptr \in DOMAIN mem
          /\ has_order(mem[ptr].id)
          /\ order_lookup_[mem[ptr].id] = ptr
    /\ total_order_count = Cardinality(Positions)

\* a call filled a resting order completely (it left the lookup) while two
\* or more orders still rest
C3_Witness ==
    /\ ret.op = "process_order"
    /\ \E i \in 1..Len(trades) : ~has_order(RestingId(trades[i]))
    /\ total_order_count >= 2

\* C4: every queued order has remaining > 0 and type LIMIT.
C4_QueuedOrdersOpenAndLimit ==
    \A pos \in Positions :
        /\ SlotAt(pos) \in DOMAIN mem
        /\ remaining(mem[SlotAt(pos)]) > 0
        /\ mem[SlotAt(pos)].type = "LIMIT"

\* a MARKET order came back partly filled, having filled resting orders
\* completely, and the book still holds orders
C4_Witness ==
    /\ ret.op = "process_order" /\ ret.type = "MARKET"
    /\ trades # <<>>
    /\ Traded < ret.quantity
    /\ Positions # {}

\* C5: no level of bids or asks is empty, so the level counts count exactly
\* the prices at which an order rests.
C5_NoEmptyLevel ==
    /\ \A p \in DOMAIN bids_ : ~is_empty(bids_[p])
    /\ \A p \in DOMAIN asks_ : ~is_empty(asks_[p])
    /\ bid_level_count =
          Cardinality({mem[order_lookup_[id]].price :
                          id \in {j \in DOMAIN order_lookup_ :
                                     mem[order_lookup_[j]].side = "BUY"}})
    /\ ask_level_count =
          Cardinality({mem[order_lookup_[id]].price :
                          id \in {j \in DOMAIN order_lookup_ :
                                     mem[order_lookup_[j]].side = "SELL"}})

\* a BUY drained the level it traded at, and other ask levels remain
C5_Witness ==
    /\ ret.op = "process_order" /\ ret.side = "BUY"
    /\ \E i \in 1..Len(trades) : trades[i].price \notin DOMAIN asks_
    /\ asks_ # <<>>

\* the id of the resting counterparty of trade t of the call recorded in r
RestingIdOf(r, t) == IF r.side = "BUY" THEN t.seller_order_id ELSE t.buyer_order_id

\* the quantity the first k-1 trades of ts gave to resting order id
FilledBefore(r, ts, id, k) ==
    SeqSum([h \in 1..(k - 1) |->
               IF RestingIdOf(r, ts[h]) = id THEN ts[h].quantity ELSE 0])

\* the sum of remaining over the levels of map at the prices ps
RECURSIVE LevelsSum(_, _, _)
LevelsSum(map, ps, m) ==
    IF ps = {} THEN 0
    ELSE LET p == CHOOSE x \in ps : TRUE
         IN SumRemaining(map[p].orders_, m) + LevelsSum(map, ps \ {p}, m)

\* a resting price the order of call r may trade at
Eligible(r, p) ==
    \/ r.type = "MARKET"
    \/ r.type = "LIMIT" /\ r.side = "BUY" /\ p <= r.price
    \/ r.type = "LIMIT" /\ r.side = "SELL" /\ p >= r.price

\* C6: time priority within a level: of two orders resting at the same price
\* on the same side, the later-arrived one receives a fill only after the
\* earlier one has been filled completely (and so no longer rests).
C6_TimePriority ==
    [][\A i, j \in DOMAIN order_lookup_ :
          (/\ i < j
           /\ mem[order_lookup_[i]].side = mem[order_lookup_[j]].side
           /\ mem[order_lookup_[i]].price = mem[order_lookup_[j]].price)
          => \A k \in 1..Len(trades') :
                RestingIdOf(ret', trades'[k]) = j =>
                   /\ i \notin DOMAIN order_lookup_'
                   /\ \E h \in 1..(k - 1) : RestingIdOf(ret', trades'[h]) = i
      ]_vars

\* a call filled the head order of a level and a later order of that level
\* still rests
C6_Witness ==
    /\ ret.op = "process_order"
    /\ \E k \in 1..Len(trades) : \E j \in DOMAIN order_lookup_ :
          /\ j > RestingId(trades[k])
          /\ j # ret.id
          /\ mem[order_lookup_[j]].price = trades[k].price
          /\ mem[order_lookup_[j]].side # ret.side

\* C7: every trade carries the price of the resting order it matched, never
\* the incoming order's limit.
C7_TradesAtRestingPrice ==
    [][ret'.op = "process_order" =>
          \A k \in 1..Len(trades') :
             /\ RestingIdOf(ret', trades'[k]) \in DOMAIN order_lookup_
             /\ trades'[k].price =
                   mem[order_lookup_[RestingIdOf(ret', trades'[k])]].price
      ]_vars

\* a BUY LIMIT traded below its own limit
C7_Witness ==
    /\ ret.op = "process_order" /\ ret.type = "LIMIT" /\ ret.side = "BUY"
    /\ \E k \in 1..Len(trades) : trades[k].price < ret.price

\* C8: the trade list of one call is in match order: prices non-decreasing
\* for a BUY (non-increasing for a SELL), equal prices in arrival order of
\* the resting orders, and an order trades only when every order at a
\* strictly better price on its side has been filled completely.
C8_TradesInMatchOrder ==
    [][ret'.op = "process_order" =>
          /\ \A k \in 1..(Len(trades') - 1) :
                /\ ret'.side = "BUY" => trades'[k].price <= trades'[k + 1].price
                /\ ret'.side = "SELL" => trades'[k].price >= trades'[k + 1].price
                /\ trades'[k].price = trades'[k + 1].price =>
                      RestingIdOf(ret', trades'[k]) < RestingIdOf(ret', trades'[k + 1])
          /\ \A k \in 1..Len(trades') : \A id \in DOMAIN order_lookup_ :
                LET o == mem[order_lookup_[id]] IN
                (/\ o.side # ret'.side
                 /\ IF ret'.side = "BUY" THEN o.price < trades'[k].price
                                         ELSE o.price > trades'[k].price)
                => FilledBefore(ret', trades', id, k) = remaining(o)
      ]_vars

\* a call traded at two prices
C8_Witness ==
    /\ ret.op = "process_order"
    /\ Len(trades) >= 2
    /\ trades[1].price # trades[2].price

\* C9: conservation of quantity: the trades of a call with quantity Q > 0 sum
\* to F <= Q; either F = Q and nothing of the order rests, or (LIMIT) exactly
\* one order with the new id rests on its side at its price with remaining
\* Q - F, or (MARKET) nothing of it rests.
C9_Conservation ==
    (ret.op = "process_order" /\ ret.quantity > 0) =>
        LET mine == {pos \in Positions : mem[SlotAt(pos)].id = ret.id} IN
        /\ Traded <= ret.quantity
        /\ \/ /\ Traded = ret.quantity
              /\ mine = {} /\ ~has_order(ret.id)
           \/ /\ Traded < ret.quantity /\ ret.type = "LIMIT"
              /\ has_order(ret.id)
              /\ Cardinality(mine) = 1
              /\ \A pos \in mine :
                    /\ pos[1] = ret.side /\ pos[2] = ret.price
                    /\ remaining(mem[SlotAt(pos)]) = ret.quantity - Traded
           \/ /\ Traded < ret.quantity /\ ret.type = "MARKET"
              /\ mine = {} /\ ~has_order(ret.id)

\* a LIMIT order was filled in part and rests with the remainder
C9_Witness ==
    /\ ret.op = "process_order" /\ ret.type = "LIMIT"
    /\ 0 < Traded /\ Traded < ret.quantity
    /\ has_order(ret.id)

\* C10: matching is maximal: a call with quantity Q trades min(Q, L), L the
\* sum of remaining over the opposite-side orders resting at eligible prices
\* when the call began; a MARKET order that comes back unfilled leaves the
\* opposite side empty.
C10_MatchingIsMaximal ==
    [][ret'.op = "process_order" =>
          LET opp == IF ret'.side = "BUY" THEN asks_ ELSE bids_
              L == LevelsSum(opp, {p \in DOMAIN opp : Eligible(ret', p)}, mem)
              F == SeqSum(TradeQtys(trades'))
          IN /\ F = Min(ret'.quantity, L)
             /\ (ret'.type = "MARKET" /\ F < ret'.quantity) =>
                   (IF ret'.side = "BUY" THEN asks_' ELSE bids_') = <<>>
      ]_vars

\* a MARKET SELL took every bid and came back with quantity unfilled
C10_Witness ==
    /\ ret.op = "process_order" /\ ret.type = "MARKET" /\ ret.side = "SELL"
    /\ trades # <<>>
    /\ Traded < ret.quantity
    /\ bids_ = <<>>

\* the slots queued in the levels of a book
QueuedSlots(bids, asks) ==
    UNION {{bids[p].orders_[i] : i \in 1..Len(bids[p].orders_)} : p \in DOMAIN bids}
    \cup
    UNION {{asks[p].orders_[i] : i \in 1..Len(asks[p].orders_)} : p \in DOMAIN asks}

\* C11: a MARKET order never rests: after the call its id is not in the
\* lookup, no level queues it, total_order_count() has not increased, and
\* its trades do not exceed its quantity.
C11_MarketNeverRests ==
    [][(ret'.op = "process_order" /\ ret'.type = "MARKET") =>
          /\ ret'.id \notin DOMAIN order_lookup_'
          /\ Cardinality(DOMAIN order_lookup_') <= Cardinality(DOMAIN order_lookup_)
          /\ \A ptr \in QueuedSlots(bids_', asks_') :
                mem'[ptr].id # ret'.id /\ mem'[ptr].type # "MARKET"
          /\ SeqSum(TradeQtys(trades')) <= ret'.quantity
      ]_vars

\* a MARKET BUY was filled in part; what was left of it is nowhere
C11_Witness ==
    /\ ret.op = "process_order" /\ ret.type = "MARKET" /\ ret.side = "BUY"
    /\ trades # <<>>
    /\ Traded < ret.quantity
    /\ ~has_order(ret.id)

\* the LIMIT order of call r, of quantity > 0, does not cross the book
NoCross(r, bids, asks) ==
    /\ r.op = "process_order" /\ r.type = "LIMIT" /\ r.quantity > 0
    /\ IF r.side = "BUY"
       THEN DOMAIN asks = {} \/ SetMin(DOMAIN asks) > r.price
       ELSE DOMAIN bids = {} \/ SetMax(DOMAIN bids) < r.price

\* C12: a LIMIT order (of quantity > 0, process_order's precondition) that
\* does not cross returns no trade, rests at the tail of its level with its
\* full quantity remaining, and leaves every resting order and every level
\* of the opposite side as they were.
C12_NoCrossRests ==
    [][NoCross(ret', bids_, asks_) =>
          LET own == IF ret'.side = "BUY" THEN bids_ ELSE asks_
              ownAfter == IF ret'.side = "BUY" THEN bids_' ELSE asks_'
          IN
          /\ trades' = <<>>
          /\ ret'.id \in DOMAIN order_lookup_'
          /\ LET o == mem'[order_lookup_'[ret'.id]] IN
                /\ o.id = ret'.id
                /\ remaining(o) = ret'.quantity
                /\ o.side = ret'.side /\ o.price = ret'.price
          /\ IF ret'.side = "BUY" THEN asks_' = asks_ ELSE bids_' = bids_
          /\ \A id \in DOMAIN order_lookup_ :
                /\ id \in DOMAIN order_lookup_'
                /\ order_lookup_'[id] = order_lookup_[id]
                /\ mem'[order_lookup_'[id]] = mem[order_lookup_[id]]
          /\ DOMAIN ownAfter = DOMAIN own \cup {ret'.price}
          /\ \A p \in DOMAIN own : p # ret'.price => ownAfter[p] = own[p]
          /\ ownAfter[ret'.price].orders_ =
                Append(IF ret'.price \in DOMAIN own
                       THEN own[ret'.price].orders_ ELSE <<>>,
                       order_lookup_'[ret'.id])
      ]_vars

\* a LIMIT order rested without a trade while the opposite side held orders
C12_Witness ==
    /\ NoCross(ret, <<>>, <<>>)
    /\ trades = <<>>
    /\ has_order(ret.id)
    /\ remaining(mem[order_lookup_[ret.id]]) = ret.quantity
    /\ (IF ret.side = "BUY" THEN asks_ ELSE bids_) # <<>>

\* the id of the incoming order in a trade of the call recorded in r
AggressorIdOf(r, t) == IF r.side = "BUY" THEN t.buyer_order_id ELSE t.seller_order_id

\* C13: ids are 1, 2, 3, ... in call order: the k-th process_order call
\* gives its order id k whatever it does with it, cancel_order takes no id,
\* and next_order_id() is the number of process_order calls plus one.
C13_IdsInCallOrder ==
    /\ [](next_order_id_ = orders_processed_ + 1)
    /\ [][/\ ret'.op = "process_order" =>
                /\ orders_processed_' = orders_processed_ + 1
                /\ next_order_id_' = next_order_id_ + 1
                /\ DOMAIN order_lookup_' \ DOMAIN order_lookup_ \subseteq {orders_processed_'}
                /\ \A k \in 1..Len(trades') :
                      AggressorIdOf(ret', trades'[k]) = orders_processed_'
                /\ (/\ ret'.type = "LIMIT"
                    /\ SeqSum(TradeQtys(trades')) < ret'.quantity) =>
                      /\ orders_processed_' \in DOMAIN order_lookup_'
                      /\ mem'[order_lookup_'[orders_processed_']].id = orders_processed_'
          /\ ret'.op = "cancel_order" =>
                /\ next_order_id_' = next_order_id_
                /\ orders_processed_' = orders_processed_
         ]_vars

\* the third call, made after a successful cancel or not, traded and rests
\* under id 3
C13_Witness ==
    /\ ret.op = "process_order"
    /\ orders_processed_ = 3
    /\ trades # <<>>
    /\ has_order(3)
    /\ mem[order_lookup_[3]].id = 3

\* C14: timestamps strictly increase over order and trade events together:
\* every timestamp handed out is below next_timestamp; a new order's
\* timestamp is above all of those; the trades of a call carry timestamps
\* above the incoming order's, above their resting order's, and strictly
\* increasing along the list.
C14_TimestampsIncrease ==
    /\ [](/\ \A ptr \in DOMAIN mem : mem[ptr].timestamp < next_timestamp_
          /\ \A k \in 1..Len(trades) : trades[k].timestamp < next_timestamp_)
    /\ [][ret'.op = "process_order" =>
             /\ ret'.id \in DOMAIN order_lookup_' =>
                   /\ mem'[order_lookup_'[ret'.id]].timestamp >= next_timestamp_
                   /\ \A k \in 1..Len(trades') :
                         trades'[k].timestamp >
                            mem'[order_lookup_'[ret'.id]].timestamp
             /\ \A k \in 1..Len(trades') :
                   /\ trades'[k].timestamp > next_timestamp_
                   /\ trades'[k].timestamp >
                         mem[order_lookup_[RestingIdOf(ret', trades'[k])]].timestamp
                   /\ \A h \in 1..(k - 1) :
                         trades'[h].timestamp < trades'[k].timestamp
         ]_vars

\* a call made two trades and left orders resting
C14_Witness ==
    /\ ret.op = "process_order"
    /\ Len(trades) >= 2
    /\ DOMAIN mem # {}

\* what get_volume_at_price reports for a price of one side's map
VolumeIn(map, price) ==
    IF price \in DOMAIN map THEN total_quantity(map[price]) ELSE 0

\* a cancel call that found its order removed exactly that order: lookup,
\* levels, FIFO order of the others, and the other orders' records
CancelRemovedOnly(id) ==
    LET ptr == order_lookup_[id]
        o == mem[ptr]
        own == IF o.side = "BUY" THEN bids_ ELSE asks_
        ownAfter == IF o.side = "BUY" THEN bids_' ELSE asks_'
        left == SelectSeq(own[o.price].orders_, LAMBDA x : x # ptr)
    IN /\ order_lookup_' = erase(order_lookup_, id)
       /\ IF o.side = "BUY" THEN asks_' = asks_ ELSE bids_' = bids_
       /\ \A p \in DOMAIN own \ {o.price} : p \in DOMAIN ownAfter /\ ownAfter[p] = own[p]
       /\ DOMAIN ownAfter \subseteq DOMAIN own
       /\ IF left = <<>>
          THEN o.price \notin DOMAIN ownAfter
          ELSE o.price \in DOMAIN ownAfter /\ ownAfter[o.price].orders_ = left
       /\ \A q \in DOMAIN mem \ {ptr} : q \in DOMAIN mem' /\ mem'[q] = mem[q]

\* the level's reported volume dropped by the cancelled order's remaining
CancelVolumeDrop(id) ==
    LET o == mem[order_lookup_[id]]
        own == IF o.side = "BUY" THEN bids_ ELSE asks_
        ownAfter == IF o.side = "BUY" THEN bids_' ELSE asks_'
    IN VolumeIn(ownAfter, o.price) = VolumeIn(own, o.price) - remaining(o)

\* C15: cancel_order(id) returns true exactly when id rests; then that
\* order and only it leaves its level and the lookup, the level's reported
\* volume drops by the order's remaining quantity, an emptied level is
\* erased, and the FIFO order of the others is kept.  The volume part fails
\* on the code when the level's cached total is stale (C1) and the cancel
\* empties the level: the reported volume falls from the stale total to 0.
C15_CancelRemovesOrder ==
    [][ret'.op = "cancel_order" =>
          /\ ret'.ok <=> ret'.id \in DOMAIN order_lookup_
          /\ ret'.ok => CancelRemovedOnly(ret'.id) /\ CancelVolumeDrop(ret'.id)
      ]_vars


\* the engine's fields: book levels, lookup, pool and counters
EngineFields ==
    <<bids_, asks_, order_lookup_, mem, free_list_, allocated_, blocks_,
      next_order_id_, next_timestamp_, trade_count_, orders_processed_>>

\* C16: cancelling an id that was never assigned returns false and is a
\* no-op (book levels, lookup, pool allocation count and all counters are
\* unchanged), and repeating the cancel returns false again.
C16_CancelUnknownIsNoOp ==
    /\ []((ret.op = "cancel_order" /\ ret.id >= next_order_id_) =>
             LET E == cancel_order(Engine, ret.id)
             IN /\ ~E.ok
                /\ <<E.bids, E.asks, E.lookup, E.mem, E.free_list, E.allocated,
                     E.blocks, E.next_order_id, E.next_timestamp, E.trade_count,
                     E.orders_processed>> = EngineFields)
    /\ [][(ret'.op = "cancel_order" /\ ret'.id >= next_order_id_) =>
             ~ret'.ok /\ UNCHANGED EngineFields
         ]_vars

\* a never-assigned id was cancelled while orders rest in the book
C16_Witness ==
    /\ ret.op = "cancel_order"
    /\ ret.id >= next_order_id_
    /\ ~ret.ok
    /\ total_order_count >= 2
    /\ allocated_ >= 2


\* the ids assigned so far
AssignedIds == 1..(next_order_id_ - 1)

\* the resting orders a call filled completely: their pre-call remaining
\* equals the quantity of their trade
FullyFilledResting(r, ts) ==
    {RestingIdOf(r, ts[k]) : k \in {j \in 1..Len(ts) :
        LET id == RestingIdOf(r, ts[j])
        IN id \in DOMAIN order_lookup_ /\
           remaining(mem[order_lookup_[id]]) = ts[j].quantity}}

\* C17: cancel_order returns false for the id of a fully filled order
\* (aggressor or resting), of a MARKET order, and of an already cancelled
\* order; for each id at most one cancel_order call returns true.  Stated
\* step by step: cancel_order is true exactly for an id in the lookup; a
\* filled order, a MARKET order and a cancelled order are out of the lookup
\* when the call returns; an assigned id that is out never comes back.
C17_GoneIdsStayGone ==
    /\ [](\A id \in AssignedIds :
             id \notin DOMAIN order_lookup_ => ~cancel_order(Engine, id).ok)
    /\ [](ret.op = "cancel_order" => ~cancel_order(Engine, ret.id).ok)
    /\ [][/\ \A id \in AssignedIds :
                id \notin DOMAIN order_lookup_ => id \notin DOMAIN order_lookup_'
          /\ ret'.op = "cancel_order" =>
                /\ ret'.ok <=> ret'.id \in DOMAIN order_lookup_
                /\ ret'.id \notin DOMAIN order_lookup_'
          /\ ret'.op = "process_order" =>
                /\ (ret'.type = "MARKET" \/ SeqSum(TradeQtys(trades')) = ret'.quantity)
                      => ret'.id \notin DOMAIN order_lookup_'
                /\ FullyFilledResting(ret', trades') \cap DOMAIN order_lookup_' = {}
         ]_vars

\* a cancel of an assigned id returned false after trades, with orders resting
C17_Witness ==
    /\ ret.op = "cancel_order"
    /\ ret.id \in AssignedIds
    /\ ~ret.ok
    /\ trade_count_ >= 1
    /\ total_order_count >= 1


\* the slots on the pool's free list
FreeSlots == {free_list_[i] : i \in 1..Len(free_list_)}

\* the slots the lookup points at
LookupSlots == {order_lookup_[id] : id \in DOMAIN order_lookup_}

\* C18: every order record the engine allocated goes back to the pool
\* exactly once and only after it left the book: after every public
\* operation allocated_count() equals total_order_count(), no order is
\* leaked (every slot of the pool is on the free list or in the book), none
\* is freed twice (the free list has no duplicate) and none is freed while
\* queued in a level or present in the lookup.
C18_PoolMatchesBook ==
    /\ allocated_ = total_order_count
    /\ Cardinality(LookupSlots) = total_order_count
    /\ DOMAIN mem = LookupSlots
    /\ QueuedSlots(bids_, asks_) = LookupSlots
    /\ Cardinality(FreeSlots) = Len(free_list_)
    /\ FreeSlots \cap (LookupSlots \cup QueuedSlots(bids_, asks_)) = {}
    /\ FreeSlots \cup LookupSlots = 0..(capacity(Engine) - 1)

\* slots were freed by a fill and by a cancel, the pool grew a block,
\* and orders still rest
C18_Witness ==
    /\ ret.op = "cancel_order"
    /\ ret.ok
    /\ trade_count_ >= 1
    /\ blocks_ >= 2
    /\ allocated_ >= 1
    /\ Len(free_list_) >= 2


\* ------------------------------------------------------------ adapter claims
\* the adapter call recorded in i was a new-order request (a LIMIT or MARKET
\* line with its four fields, or a NEW_ORDER message)
NewOrderRequest(i) ==
    \/ i.adapter = "csv" /\ Len(i.line) >= 4 /\ toupper(i.line[1]) \in OrderTypes
    \/ i.adapter = "tcp" /\ i.msg.msg_type = NEW_ORDER

RequestType(i) ==
    IF i.adapter = "csv" THEN toupper(i.line[1]) ELSE to_OrderType(i.msg.order_type)

RequestQuantity(i) == IF i.adapter = "csv" THEN i.line[4] ELSE i.msg.quantity

\* the request names no price, or a price that is zero or negative
RequestPriceInvalid(i) ==
    IF i.adapter = "csv"
    THEN i.line[3] = <<>> \/ i.line[3][1] <= 0
    ELSE i.msg.price <= 0

\* the adapter call made no engine call and left the engine as it was
Rejected(i) == i.call.op = "none" /\ UNCHANGED EngineFields

\* C19: an adapter rejects a new-order request with quantity 0 before any
\* engine call: process_order is not invoked, no order id is consumed and
\* no engine state changes.  Holds for the CSV parser; the TCP server
\* passes the message's quantity to process_order unchecked.
C19_ZeroQuantityRejected ==
    [][(NewOrderRequest(io') /\ RequestQuantity(io') = 0) => Rejected(io')]_vars


\* C20: an adapter rejects a LIMIT order whose price is missing, zero or
\* negative before any engine call, so no order ever rests at a
\* non-positive price.  The CSV parser turns away only the empty price
\* field; the TCP server passes every price on.
C20_InvalidLimitPriceRejected ==
    /\ [](\A p \in DOMAIN bids_ \cup DOMAIN asks_ : p > 0)
    /\ [][(/\ NewOrderRequest(io')
           /\ RequestType(io') = "LIMIT"
           /\ RequestPriceInvalid(io')) => Rejected(io')]_vars


CsvRejects(line) ==
    LET cmd == toupper(line[1])
    IN IF cmd = "PRINT" THEN FALSE
       ELSE IF cmd = "CANCEL" THEN Len(line) < 5
       ELSE \/ Len(line) < 4
            \/ cmd \notin OrderTypes
            \/ toupper(line[2]) \notin {"BUY", "B", "SELL", "S"}
            \/ cmd = "LIMIT" /\ line[3] = <<>>
            \/ line[4] = 0

\* C24: every command line the CSV adapter rejects produces exactly one
\* output line beginning with ERROR: and makes no engine call:
\* next_order_id, the book and all counters are unchanged.
C24_CsvRejectIsOneErrorLine ==
    [][(io'.adapter = "csv" /\ CsvRejects(io'.line)) =>
          /\ Len(io'.os) = 1
          /\ io'.os[1][1] = "ERROR:"
          /\ Rejected(io')
      ]_vars

\* a line with quantity 0 was turned away while orders rest in the book
C24_Witness ==
    /\ io.adapter = "csv"
    /\ Len(io.line) = 4
    /\ io.line[1] = "MARKET"
    /\ io.line[4] = 0
    /\ io.os = <<<<"ERROR:", "quantity must be > 0">>>>
    /\ total_order_count >= 1
    /\ next_order_id_ <= MaxOrders


\* the price a printed "whole.frac" text denotes, in ticks: the text has a
\* minus sign exactly when whole is negative
price_of_string(text) ==
    IF text[1] < 0 THEN text[1] * PRICE_SCALE - text[2]
                   ELSE text[1] * PRICE_SCALE + text[2]

\* the CANCEL line made one cancel_order call and wrote its outcome
CsvCancelOutcome ==
    LET id == io'.line[5]
    IN /\ io'.call.op = "cancel_order"
       /\ io'.call.id = id
       /\ io'.os = IF id \in DOMAIN order_lookup_
                   THEN <<<<"CANCELLED", id>>>>
                   ELSE <<<<"CANCEL_REJECT", id, "(not found)">>>>

\* one TRADE line per returned trade, in match order, with the trade's ids
\* and quantity
CsvTradeLines ==
    /\ Len(io'.os) = Len(trades')
    /\ \A k \in 1..Len(trades') :
          /\ Len(io'.os[k]) = 5
          /\ io'.os[k][1] = "TRADE"
          /\ io'.os[k][2] = trades'[k].buyer_order_id
          /\ io'.os[k][3] = trades'[k].seller_order_id
          /\ io'.os[k][5] = trades'[k].quantity

\* the price printed on each TRADE line is the trade's price
CsvTradePrices ==
    \A k \in 1..Len(trades') : price_of_string(io'.os[k][4]) = trades'[k].price

\* C25: for a line CANCEL,,,,<id> the CSV adapter calls cancel_order(id)
\* once and writes CANCELLED <id> exactly when the id was resting, otherwise
\* CANCEL_REJECT <id> (not found); for each trade returned by a LIMIT or
\* MARKET line it writes one line TRADE <buyer_id> <seller_id> <price> <qty>
\* in match order.  The printed price is wrong for a trade at a negative
\* price, which the adapter lets in (C20): price_to_string drops the sign
\* when the whole part is 0.
C25_CsvCancelAndTradeLines ==
    [][io'.adapter = "csv" =>
          /\ (toupper(io'.line[1]) = "CANCEL" /\ Len(io'.line) >= 5)
                => CsvCancelOutcome
          /\ io'.call.op = "process_order"
                => CsvTradeLines /\ CsvTradePrices
      ]_vars


\* the prices at which an order of this side rests
RestingPrices(side) ==
    {mem[order_lookup_[id]].price :
        id \in {i \in DOMAIN order_lookup_ : mem[order_lookup_[i]].side = side}}

\* C27: best_bid() is the maximum price over all resting BUY orders and
\* best_ask() the minimum price over all resting SELL orders, whatever the
\* order of insertion; each returns no value exactly when its side has no
\* resting order; get_volume_at_price returns 0 for a price with no level.
C27_BestPrices ==
    /\ best_bid = NULL <=> RestingPrices("BUY") = {}
    /\ best_ask = NULL <=> RestingPrices("SELL") = {}
    /\ RestingPrices("BUY") # {} =>
          /\ best_bid \in RestingPrices("BUY")
          /\ \A p \in RestingPrices("BUY") : p <= best_bid
    /\ RestingPrices("SELL") # {} =>
          /\ best_ask \in RestingPrices("SELL")
          /\ \A p \in RestingPrices("SELL") : p >= best_ask
    /\ \A side \in Sides, p \in 0..(MaxPrice + 1) :
          p \notin RestingPrices(side) => get_volume_at_price(side, p) = 0

\* two bids at different prices with the better one inserted first, and an
\* ask above them
C27_Witness ==
    /\ DOMAIN order_lookup_ = {1, 2, 3}
    /\ mem[order_lookup_[1]].side = "BUY"
    /\ mem[order_lookup_[2]].side = "BUY"
    /\ mem[order_lookup_[3]].side = "SELL"
    /\ mem[order_lookup_[1]].price > mem[order_lookup_[2]].price
    /\ best_bid = mem[order_lookup_[1]].price
    /\ best_ask = mem[order_lookup_[3]].price


\* ------------------------------------------------------------ pool claims
\* C28: allocate never returns null and never returns a slot that is
\* currently allocated: under any sequence of allocate and deallocate calls
\* without double free the live slots are pairwise distinct,
\* allocated_count() is the number of allocate calls minus the number of
\* deallocate calls (0 at first, one up on allocate, one down on
\* deallocate), and allocated_count() <= capacity().
C28_AllocateGivesFreshSlot ==
    /\ [](/\ ret.op = "init" => allocated_ = 0
          /\ allocated_ = Cardinality(DOMAIN mem)
          /\ allocated_ <= capacity(Engine))
    /\ [][/\ ret'.op = "allocate" =>
                /\ ret'.ptr # NULL
                /\ ret'.ptr \in 0..(capacity(Engine)' - 1)
                /\ ret'.ptr \notin DOMAIN mem
                /\ DOMAIN mem' = DOMAIN mem \cup {ret'.ptr}
                /\ allocated_' = allocated_ + 1
          /\ ret'.op = "deallocate" =>
                /\ DOMAIN mem' = DOMAIN mem \ {ret'.ptr}
                /\ allocated_' = allocated_ - 1
         ]_vars

\* the caller holds slots of three blocks, among them one it had given back
C28_Witness ==
    /\ ret.op = "allocate"
    /\ allocated_ = MaxLive
    /\ blocks_ >= 3
    /\ ret.ptr < BlockSize


\* C29: the pool's capacity starts at BlockSize, grows by exactly BlockSize
\* only on an allocate call made while every existing slot is allocated
\* (free list empty), and never shrinks; deallocate never changes it; the
\* free-list length always equals capacity() - allocated_count().
C29_CapacityGrowsByBlocks ==
    /\ [](/\ ret.op = "init" => capacity(Engine) = BlockSize
          /\ Len(free_list_) = capacity(Engine) - allocated_)
    /\ [][/\ capacity(Engine)' >= capacity(Engine)
          /\ capacity(Engine)' # capacity(Engine) =>
                /\ ret'.op = "allocate"
                /\ free_list_ = <<>>
                /\ allocated_ = capacity(Engine)
                /\ capacity(Engine)' = capacity(Engine) + BlockSize
          /\ (ret'.op = "allocate" /\ free_list_ = <<>>) =>
                capacity(Engine)' = capacity(Engine) + BlockSize
          /\ ret'.op = "deallocate" => capacity(Engine)' = capacity(Engine)
         ]_vars

\* the pool grew twice and did not shrink when slots came back
C29_Witness ==
    /\ ret.op = "deallocate"
    /\ capacity(Engine) = 3 * BlockSize
    /\ allocated_ < BlockSize
    /\ Len(free_list_) > 2 * BlockSize


\* the slots given back and not handed out again since, most recent first,
\* as the caller noted them
GivenBack == IF ret.op = "init" THEN <<>> ELSE ret.freed

\* C30: the pool reuses freed slots last-in first-out: an allocate call
\* right after deallocate(p) returns p, and in general allocate returns the
\* most recently deallocated slot that has not been reallocated, without
\* growing capacity.
C30_ReuseIsLifo ==
    [][ret'.op = "allocate" =>
          /\ ret.op = "deallocate" => ret'.ptr = ret.ptr
          /\ GivenBack # <<>> =>
                /\ ret'.ptr = Head(GivenBack)
                /\ capacity(Engine)' = capacity(Engine)
      ]_vars

\* a slot was handed out again while older given-back slots still wait,
\* in a pool of two blocks
C30_Witness ==
    /\ ret.op = "allocate"
    /\ Len(ret.freed) >= 2
    /\ SubSeq(free_list_, 1, Len(ret.freed)) = ret.freed
    /\ blocks_ >= 2
    /\ allocated_ >= 2


\* C23: one invocation of the client-data handler passes at most one message
\* to the engine, however many complete messages of that client are buffered
\* in the socket.  (Refuted: the loop of handle_client_data reads until the
\* socket has nothing left and passes on every complete message it finds.)
C23_OneMessagePerEvent ==
    [][HandleClientData => Len(io'.msg) <= 1]_vars


\* C26: a failure of an adapter never ends the engine.  A read error or an
\* end of stream on a TCP client removes that client's connection only and
\* the server runs on; after any text command, malformed ones included, the
\* CSV driver is still running, ready for the next command, and a malformed
\* command leaves the engine as it was.  (Refuted for the CSV driver: a
\* non-numeric field throws out of process_stream and main returns 1.)
C26_AdapterFailureKeepsEngine ==
    [][/\ (HandleClientData \/ RunEvEof) =>
             /\ proc' = "server"
             /\ Len(clients_') >= Len(clients_) - 1
             /\ \A fd \in DOMAIN net.conns :
                   fd \notin DOMAIN net'.conns =>
                      clients_' = remove_client(clients_, fd)
       /\ ProcessStream =>
             /\ proc' = "csv"
             /\ io'.call.op = "throw" => UNCHANGED EngineFields]_vars


\* the opposite side of a call's book
OppositeOf(r, bids, asks) == IF r.side = "BUY" THEN asks ELSE bids

\* C31: when the incoming order is exhausted while it fills the head order
\* of a level only in part (the last trade of the call, its resting order
\* still in the lookup), that order stays at the head of its level in the
\* same slot with the same id, timestamp, price and quantity, its remaining
\* falls by exactly the fill quantity, it is not handed back to the pool,
\* and the partial fill takes exactly the fill quantity off the level's
\* reported volume: the volume after the call is the volume after the same
\* call stopped short of this fill (its quantity less the fill), less the
\* fill quantity.
C31_PartialFillKeepsHead ==
    [][(ret'.op = "process_order" /\ trades' # <<>>) =>
          LET t == trades'[Len(trades')]
              id == RestingIdOf(ret', t)
          IN id \in DOMAIN order_lookup_' =>
                LET ptr == order_lookup_[id]
                    level == OppositeOf(ret', bids_', asks_')[t.price]
                    short == process_order(Engine, ret'.side, ret'.type, ret'.price,
                                           ret'.quantity - t.quantity)
                IN /\ SeqSum(TradeQtys(trades')) = ret'.quantity
                   /\ order_lookup_'[id] = ptr
                   /\ ptr \in DOMAIN mem'
                   /\ \A i \in 1..Len(free_list_') : free_list_'[i] # ptr
                   /\ t.price \in DOMAIN OppositeOf(ret', bids_', asks_')
                   /\ front(level) = ptr
                   /\ mem'[ptr] = [mem[ptr] EXCEPT !.filled_qty = @ + t.quantity]
                   /\ remaining(mem'[ptr]) = remaining(mem[ptr]) - t.quantity
                   /\ remaining(mem'[ptr]) > 0
                   /\ total_quantity(level) =
                         total_quantity(OppositeOf(ret', short.bids, short.asks)[t.price])
                            - t.quantity
      ]_vars

\* a call filled the first order of a level completely and the next one in
\* part, which still rests
C31_Witness ==
    /\ ret.op = "process_order"
    /\ Len(trades) >= 2
    /\ trades[Len(trades)].price = trades[Len(trades) - 1].price
    /\ RestingId(trades[Len(trades)]) \in DOMAIN order_lookup_


\* C32: 0 <= filled_qty <= quantity for every live order; every trade has a
\* quantity above 0 that is at most the remaining of its resting order when
\* the call began (a resting order trades once in a call) and at most what
\* the trades before it left of the incoming order; so no remaining goes
\* below 0 and the fills of an order never add up to more than its quantity.
C32_FillsWithinQuantity ==
    /\ [](\A s \in DOMAIN mem :
             /\ 0 <= mem[s].filled_qty
             /\ mem[s].filled_qty <= mem[s].quantity
             /\ remaining(mem[s]) >= 0)
    /\ [][ret'.op = "process_order" =>
             /\ SeqSum(TradeQtys(trades')) <= ret'.quantity
             /\ \A k \in 1..Len(trades') :
                   LET id == RestingIdOf(ret', trades'[k]) IN
                   /\ trades'[k].quantity > 0
                   /\ id \in DOMAIN order_lookup_
                   /\ trades'[k].quantity <= remaining(mem[order_lookup_[id]])
                   /\ trades'[k].quantity <=
                         ret'.quantity
                            - SeqSum(SubSeq(TradeQtys(trades'), 1, k - 1))
                   /\ \A h \in 1..Len(trades') :
                         RestingIdOf(ret', trades'[h]) = id => h = k
                   /\ id \in DOMAIN order_lookup_' =>
                         mem'[order_lookup_'[id]].filled_qty =
                            mem[order_lookup_[id]].filled_qty + trades'[k].quantity
         ]_vars

\* the third order traded with the first, which the second had filled in
\* part: order 1 was filled by two calls
C32_Witness ==
    /\ ret.op = "process_order" /\ ret.id = 3
    /\ trade_count_ = 2
    /\ Len(trades) = 1
    /\ RestingId(trades[1]) = 1


\* C33: orders and trades draw from one timestamp sequence without gaps that
\* starts at 1.  With t = next_timestamp_ - 1 timestamps issued when a
\* process_order call starts, its order gets t + 1 and its k trades get
\* t + 2 .. t + k + 1 in match order; cancel_order issues none.  So the
\* number issued is always orders_processed() + trade_count(), and
\* trade_count() grows by the number of trades each call returns.
C33_OneTimestampSequence ==
    /\ [](/\ next_timestamp_ - 1 = orders_processed_ + trade_count_
          /\ next_timestamp_ >= 1)
    /\ [][/\ ret'.op = "process_order" =>
                /\ ret'.id \in DOMAIN order_lookup_' =>
                      mem'[order_lookup_'[ret'.id]].timestamp = next_timestamp_
                /\ \A k \in 1..Len(trades') :
                      trades'[k].timestamp = next_timestamp_ + k
                /\ next_timestamp_' = next_timestamp_ + 1 + Len(trades')
                /\ orders_processed_' = orders_processed_ + 1
                /\ trade_count_' = trade_count_ + Len(trades')
          /\ ret'.op = "cancel_order" =>
                /\ UNCHANGED <<next_timestamp_, orders_processed_, trade_count_>>
                /\ \A ptr \in DOMAIN mem' : mem'[ptr].timestamp = mem[ptr].timestamp
         ]_vars

\* after an earlier trade, the third call made a trade and its order rests
C33_Witness ==
    /\ ret.op = "process_order"
    /\ trades # <<>>
    /\ trade_count_ > Len(trades)
    /\ ret.id \in DOMAIN order_lookup_
    /\ next_timestamp_ = 6


\* C34: the life of an order goes one way.  An id enters the lookup only at
\* the return of the process_order call that assigned it (the id is the
\* next_order_id_ of the state before), and only for a LIMIT order left
\* with remaining above 0; an id leaves the lookup only by a cancel of that
\* id or by the fill that completes it; an assigned id that is out of the
\* lookup stays out, and ids only grow, whichever slot a later order gets.
C34_LifecycleOneWay ==
    /\ [](DOMAIN order_lookup_ \subseteq AssignedIds)
    /\ [][/\ \A id \in DOMAIN order_lookup_' \ DOMAIN order_lookup_ :
                /\ ret'.op = "process_order"
                /\ id = ret'.id /\ id = next_order_id_
                /\ ret'.type = "LIMIT"
                /\ mem'[order_lookup_'[id]].id = id
                /\ remaining(mem'[order_lookup_'[id]]) > 0
          /\ \A id \in DOMAIN order_lookup_ \ DOMAIN order_lookup_' :
                \/ ret'.op = "cancel_order" /\ ret'.id = id /\ ret'.ok
                \/ ret'.op = "process_order"
                      /\ id \in FullyFilledResting(ret', trades')
          /\ \A id \in DOMAIN order_lookup_ \cap DOMAIN order_lookup_' :
                /\ ~(ret'.op = "cancel_order" /\ ret'.id = id)
                /\ ret'.op = "process_order" =>
                      id \notin FullyFilledResting(ret', trades')
                /\ mem'[order_lookup_'[id]].id = id
          /\ \A id \in AssignedIds :
                id \notin DOMAIN order_lookup_ => id \notin DOMAIN order_lookup_'
          /\ next_order_id_' >= next_order_id_
          /\ ret'.op = "process_order" => next_order_id_' = next_order_id_ + 1
         ]_vars

\* the second order rests in the slot the first order had: the first order
\* ended (filled, cancelled or discarded) and its id is out of the lookup
C34_Witness ==
    /\ ret.op = "process_order" /\ ret.id = 2
    /\ has_order(2) /\ ~has_order(1)
    /\ order_lookup_[2] = BlockSize - 1
    /\ allocated_ = 1


\* the slots queued on one side of the book in price-time order: best price
\* first (least ask, greatest bid), arrival order within a level
RECURSIVE Flatten(_, _)
Flatten(map, side) ==
    IF DOMAIN map = {} THEN <<>>
    ELSE LET p == IF side = "SELL" THEN SetMin(DOMAIN map) ELSE SetMax(DOMAIN map)
         IN map[p].orders_ \o Flatten(erase(map, p), side)

\* seq2 is seq1 without its first n elements, for some n
IsSuffix(seq2, seq1) ==
    /\ Len(seq2) <= Len(seq1)
    /\ seq2 = SubSeq(seq1, Len(seq1) - Len(seq2) + 1, Len(seq1))

\* C35: a process_order call for side S changes the book in two ways only.
\* On the opposite side it consumes a prefix of the resting orders in
\* price-time order: the orders of its trades are the first orders of that
\* order, all but possibly the last of them leave the book, the last may
\* stay with a larger filled_qty, and every other order keeps its record,
\* its level and its place behind the same orders.  On side S every order
\* and level is as before, except that the incoming order, when it rests,
\* is appended at the tail of the level at its price.
C35_ProcessOrderFrame ==
    [][ret'.op = "process_order" =>
          LET oside == IF ret'.side = "BUY" THEN "SELL" ELSE "BUY"
              opp == OppositeOf(ret', bids_, asks_)
              opp2 == OppositeOf(ret', bids_', asks_')
              same == IF ret'.side = "BUY" THEN bids_ ELSE asks_
              same2 == IF ret'.side = "BUY" THEN bids_' ELSE asks_'
              L == Flatten(opp, oside)
              L2 == Flatten(opp2, oside)
              n == Len(L) - Len(L2)
              k == Len(trades')
          IN /\ IsSuffix(L2, L)
             /\ n <= k /\ k <= n + 1 /\ k <= Len(L)
             /\ \A i \in 1..k : mem[L[i]].id = RestingIdOf(ret', trades'[i])
             /\ \A p \in DOMAIN opp2 :
                   /\ p \in DOMAIN opp
                   /\ IsSuffix(opp2[p].orders_, opp[p].orders_)
             /\ \A i \in 1..Len(L2) :
                   mem'[L2[i]] =
                      IF i = 1 /\ k = n + 1
                      THEN [mem[L2[i]] EXCEPT !.filled_qty = @ + trades'[k].quantity]
                      ELSE mem[L2[i]]
             /\ \A i \in 1..Len(Flatten(same, ret'.side)) :
                   mem'[Flatten(same, ret'.side)[i]] = mem[Flatten(same, ret'.side)[i]]
             /\ IF ret'.id \in DOMAIN order_lookup_'
                THEN LET ptr == order_lookup_'[ret'.id]
                         old == IF ret'.price \in DOMAIN same
                                THEN same[ret'.price] ELSE EmptyLevel
                     IN same2 = put(same, ret'.price,
                                    [orders_ |-> Append(old.orders_, ptr),
                                     total_qty_ |-> old.total_qty_
                                                      + remaining(mem'[ptr])])
                ELSE same2 = same
      ]_vars

\* a call traded, left an opposite-side order untouched and rests itself
C35_Witness ==
    /\ ret.op = "process_order"
    /\ trades # <<>>
    /\ has_order(ret.id)
    /\ OppositeOf(ret, bids_, asks_) # <<>>
    /\ mem[order_lookup_[ret.id]].filled_qty > 0


\* C36: in every trade buyer_order_id is the id of a BUY order and
\* seller_order_id the id of a SELL order.  One of the two is the id the
\* call has just assigned to its incoming order, on the incoming order's
\* side of the trade; the other is a smaller id, of an order that rested on
\* the other side when the call began.  So no order trades with itself or
\* with an order of its own side.
C36_TradeParties ==
    [][ret'.op = "process_order" =>
          /\ ret'.id = next_order_id_
          /\ \A k \in 1..Len(trades') :
                LET t == trades'[k]
                    mine == IF ret'.side = "BUY" THEN t.buyer_order_id
                                                 ELSE t.seller_order_id
                    other == IF ret'.side = "BUY" THEN t.seller_order_id
                                                  ELSE t.buyer_order_id
                IN /\ mine = ret'.id
                   /\ other < ret'.id
                   /\ other \in DOMAIN order_lookup_
                   /\ mem[order_lookup_[other]].id = other
                   /\ mem[order_lookup_[other]].side # ret'.side
                   /\ mem[order_lookup_[other]].side =
                         (IF ret'.side = "BUY" THEN "SELL" ELSE "BUY")
                   /\ t.buyer_order_id # t.seller_order_id
      ]_vars

\* a SELL order made two trades: it is the seller of both
C36_Witness ==
    /\ ret.op = "process_order" /\ ret.side = "SELL"
    /\ Len(trades) = 2
    /\ trades[1].seller_order_id = ret.id
    /\ trades[2].seller_order_id = ret.id
    /\ trades[1].buyer_order_id # trades[2].buyer_order_id


\* the mirror of the engine: BUY and SELL swapped and every LIMIT price p
\* reflected to MirrorK - p, a constant above all prices
MirrorK == MaxPrice + 1
Flip(side) == IF side = "BUY" THEN "SELL" ELSE "BUY"
MirrorPrice(type, price) == IF type = "LIMIT" THEN MirrorK - price ELSE price
MirrorMap(map) == [q \in {MirrorK - p : p \in DOMAIN map} |-> map[MirrorK - q]]
MirrorOrder(o) ==
    [o EXCEPT !.side = Flip(@), !.price = MirrorPrice(o.type, @)]
MirrorTrade(t) ==
    [t EXCEPT !.buyer_order_id = t.seller_order_id,
              !.seller_order_id = t.buyer_order_id,
              !.price = MirrorK - @]
Mirror(E) ==
    [E EXCEPT !.bids = MirrorMap(E.asks),
              !.asks = MirrorMap(E.bids),
              !.mem = [s \in DOMAIN E.mem |-> MirrorOrder(E.mem[s])],
              !.trades = [k \in 1..Len(E.trades) |-> MirrorTrade(E.trades[k])]]

\* C37: the sell side is the exact mirror of the buy side.  The empty engine
\* is its own mirror, and from every reachable state each call commutes with
\* the mirror: the mirrored call on the mirrored engine returns the mirrored
\* trades (buyer and seller ids swapped, the same quantities and timestamps,
\* reflected prices) or the same cancel result, and leaves the mirror of the
\* engine the call leaves.  So any sequence of calls and its mirrored
\* sequence stay mirrors of each other, call by call.
C37_SellMirrorsBuy ==
    /\ (next_order_id_ = 1) => Mirror(Engine) = Engine
    /\ \A side \in Sides, type \in OrderTypes, quantity \in Quantities :
          \A price \in (IF type = "LIMIT" THEN Prices ELSE {MarketPrice}) :
             process_order(Mirror(Engine), Flip(side), type,
                           MirrorPrice(type, price), quantity)
                = Mirror(process_order(Engine, side, type, price, quantity))
    /\ \A order_id \in 1..(MaxOrders + 1) :
          cancel_order(Mirror(Engine), order_id)
             = Mirror(cancel_order(Engine, order_id))

\* orders rest on both sides, one of them filled in part, the book is not
\* its own mirror and a next call can trade
C37_Witness ==
    /\ bids_ # <<>> /\ asks_ # <<>>
    /\ \E s \in DOMAIN mem : mem[s].filled_qty > 0
    /\ \E side \in Sides, price \in Prices :
          Len(process_order(Engine, side, "LIMIT", price, MaxQty).trades) >= 1
    /\ Mirror(Engine) # Engine


\* the ClientState of the connection client_fd
ClientOf(clients, client_fd) ==
    clients[CHOOSE i \in 1..Len(clients) : clients[i].fd = client_fd]
\* the consecutive MSG_SIZE blocks of a stream of units, in stream order
Blocks(stream) ==
    [j \in 1..(Len(stream) \div MSG_SIZE) |->
        SubSeq(stream, (j - 1) * MSG_SIZE + 1, j * MSG_SIZE)]
\* what follows the last whole block of a stream
Remainder(stream) ==
    SubSeq(stream, (Len(stream) \div MSG_SIZE) * MSG_SIZE + 1, Len(stream))
\* the engine and the responses after process_message on each block in turn
RECURSIVE PassAll(_, _, _)
PassAllNext(r, blocks, sent) == PassAll(r.E, blocks, sent \o r.sent)
PassAll(E, blocks, sent) ==
    IF blocks = <<>> THEN [E |-> E, sent |-> sent]
    ELSE PassAllNext(process_message(E, deserialize(Head(blocks))),
                     Tail(blocks), sent)

\* C38: TCP framing is per client and does not depend on how the reads split
\* the bytes.  Between events every client has 0 <= bytes_read < MSG_SIZE
\* units buffered, in a buffer of its own.  A handle_client_data call for a
\* client takes that client's buffered units followed by the unread units of
\* its socket, passes each consecutive MSG_SIZE block of them to
\* process_message exactly once, in stream order and one call after the
\* other, and keeps what follows the last block as the new partial message;
\* no other client's buffer or socket changes.  No other step of the server
\* calls the engine or puts anything in a client's buffer.
C38_FramingPerClient ==
    /\ [](\A i \in 1..Len(clients_) :
             /\ 0 <= clients_[i].bytes_read
             /\ clients_[i].bytes_read < MSG_SIZE
             /\ clients_[i].bytes_read = Len(clients_[i].read_buf)
             /\ clients_[i].fd \in DOMAIN net.conns
             /\ \A j \in 1..Len(clients_) :
                   clients_[j].fd = clients_[i].fd => j = i)
    /\ [][HandleClientData =>
             LET fd == io'.call.fd
                 stream == ClientOf(clients_, fd).read_buf \o net.conns[fd].rcvbuf
                 r == PassAll(Engine, Blocks(stream), <<>>)
             IN /\ io'.msg = Blocks(stream)
                /\ io'.sent = r.sent
                /\ IF Blocks(stream) = <<>> THEN NoEngineCall ELSE Store(r.E)
                /\ remove_client(clients_', fd) = remove_client(clients_, fd)
                /\ \A g \in DOMAIN net.conns \ {fd} :
                      g \in DOMAIN net'.conns /\ net'.conns[g] = net.conns[g]
                /\ (\E i \in 1..Len(clients_') : clients_'[i].fd = fd) =>
                      /\ ClientOf(clients_', fd).read_buf = Remainder(stream)
                      /\ net'.conns[fd].rcvbuf = <<>>
         ]_vars
    /\ [][(proc = "server" /\ ~HandleClientData) =>
             /\ UNCHANGED EngineFields
             /\ \A i \in 1..Len(clients_') :
                   \/ clients_'[i].bytes_read = 0
                   \/ \E j \in 1..Len(clients_) : clients_[j] = clients_'[i]
         ]_vars

\* two clients are connected, each with the first half of a message
\* buffered, and the last call passed on a message that came before such a
\* half
C38_Witness ==
    /\ io.adapter = "server"
    /\ io.msg # <<>>
    /\ Len(clients_) = 2
    /\ \A i \in 1..Len(clients_) : clients_[i].bytes_read = 1
    /\ ClientOf(clients_, io.call.fd).read_buf # ClientOf(clients_, 3 - io.call.fd).read_buf

=============================================================================
